---- MODULE Spec2Model ----
(***************************************************************************)
(* Qt file explorer with Git integration (src/main.py).                    *)
(*                                                                         *)
(* The model has three layers:                                             *)
(*   - Python text: a str is a sequence of tokens (a token is a piece of   *)
(*     text the code never looks inside; blanks and newlines are tokens of *)
(*     their own), None is a value apart;                                  *)
(*   - the git executable: one repository, its commands' effects and       *)
(*     outputs, each invocation given an outcome by the environment;       *)
(*   - GitManager (static helpers), the dialogs and the FileExplorer main  *)
(*     window, one action per user-triggered handler.                      *)
(***************************************************************************)
EXTENDS Integers, Sequences, FiniteSets, TLC

\* ------------------------------------------------------------------ bounds
\* Longest navigation history the model explores.
MaxHist == 2
\* Deepest nesting of on_branch_changed inside a refresh that the model follows.
MaxNest == 1
\* Most lines of a `git status --porcelain` output given to get_repo_status.
MaxLines == 3

\* ------------------------------------------------------- Python text values
None == <<"<None>">>
EmptyStr == <<>>

\* Python truthiness of an optional str: None and '' are falsy.
Truthy(s) == s /= None /\ s /= EmptyStr

IsWs(t) == t \in {" ", "\n"}

RECURSIVE LStripWs(_)
LStripWs(s) == IF s /= <<>> /\ IsWs(Head(s)) THEN LStripWs(Tail(s)) ELSE s

RECURSIVE RStripWs(_)
RStripWs(s) ==
    IF s /= <<>> /\ IsWs(s[Len(s)]) THEN RStripWs(SubSeq(s, 1, Len(s) - 1)) ELSE s

\* str.strip()
Strip(s) == RStripWs(LStripWs(s))

\* str.lstrip('* '): drops every leading '*' and ' '.
RECURSIVE LStripStarBlank(_)
LStripStarBlank(s) ==
    IF s /= <<>> /\ Head(s) \in {"*", " "} THEN LStripStarBlank(Tail(s)) ELSE s

\* str.startswith(prefix), on tokens
StartsWith(s, p) == Len(s) >= Len(p) /\ SubSeq(s, 1, Len(p)) = p

\* str.split('\n'): always at least one piece ('' gives ['']).
RECURSIVE SplitLinesAcc(_, _, _)
SplitLinesAcc(s, cur, acc) ==
    IF s = <<>> THEN Append(acc, cur)
    ELSE IF Head(s) = "\n" THEN SplitLinesAcc(Tail(s), <<>>, Append(acc, cur))
    ELSE SplitLinesAcc(Tail(s), Append(cur, Head(s)), acc)

SplitLines(s) == SplitLinesAcc(s, <<>>, <<>>)

\* '\n'.join(lines) + '\n' for every line: what git prints.
RECURSIVE JoinLines(_)
JoinLines(lines) ==
    IF lines = <<>> THEN <<>>
    ELSE Head(lines) \o <<"\n">> \o JoinLines(Tail(lines))

\* str.replace(old, ''), old a single token
RemoveToken(s, tok) == SelectSeq(s, LAMBDA t : t /= tok)

SeqToSet(s) == {s[i] : i \in 1..Len(s)}

Count(s, P(_)) == Cardinality({i \in 1..Len(s) : P(s[i])})

\* ----------------------------------------------------------- the file system
\* "home" is the user's home directory, "proj" a directory in it that holds a
\* .git directory, "sub" a plain directory inside proj, "gone" a path that is
\* no directory (a sidebar place that does not exist, or a file).
Paths == {"home", "proj", "gone"}
\* The paths GitManager is called with directly.
GitPaths == Paths \cup {"sub"}
HomePath == "home"

\* os.path.isdir(path)
IsDir(path) == path \in {"home", "proj", "sub"}

\* The breadcrumb buttons rebuild_breadcrumbs makes for a path: one per segment.
Segments(path) == IF path = HomePath THEN {HomePath} ELSE {HomePath, path}

\* os.path.isdir(os.path.join(path, '.git'))
HasGitDir(path) == path = "proj"

\* Where `git -C path` finds a repository: git searches the parent directories.
GitFindsRepo(path) == path \in {"proj", "sub"}

\* The entries the file view shows for a directory (its children).
Children(path) ==
    CASE path = "home" -> {"proj", "gone"}
      [] OTHER -> {}

\* The places of the sidebar (populate_sidebar does not test that they exist).
SidebarPlaces == {"home", "gone", "proj"}

\* --------------------------------------------------------- the git executable
B_main == <<"main">>
B_dev == <<"dev">>
B_trunk == <<"trunk">>
\* Branch names in the order git lists them.
BranchOrder == <<B_dev, B_main, B_trunk>>
Names == SeqToSet(BranchOrder)

DetachedLabel == <<"(HEAD detached at ", "1a2b3c4", ")">>
OriginUrl == <<"https://host/r.git">>
EnvErr == <<"fatal: ", "unable to access">>
ExcText == <<"Command timed out">>

\* A working-tree entry is the two status letters XY of `git status --porcelain`.
Staged(code) == code[1] \notin {" ", "?"}
StageCode(code) ==
    CASE code = <<"?", "?">> -> <<"A", " ">>
      [] code[2] = " " -> code
      [] OTHER -> <<code[2], " ">>

StageAll(wt) == [i \in 1..Len(wt) |-> StageCode(wt[i])]

\* After a commit: staged entries leave the listing, a change left unstaged stays.
RECURSIVE AfterCommit(_)
AfterCommit(wt) ==
    IF wt = <<>> THEN <<>>
    ELSE LET c == Head(wt) IN
         IF ~Staged(c) THEN <<c>> \o AfterCommit(Tail(wt))
         ELSE IF c[2] = " " THEN AfterCommit(Tail(wt))
         ELSE << <<" ", c[2]>> >> \o AfterCommit(Tail(wt))

Unborn(r) == r.head /= EmptyStr /\ r.head \notin r.locals

StatusLines(r) == [i \in 1..Len(r.wt) |-> r.wt[i] \o <<" ", "f">>]

BranchLines(r) ==
    (IF r.head = EmptyStr THEN << <<"*", " ">> \o DetachedLabel >> ELSE <<>>)
    \o [i \in 1..Len(SelectSeq(BranchOrder, LAMBDA b : b \in r.locals)) |->
          LET b == SelectSeq(BranchOrder, LAMBDA x : x \in r.locals)[i] IN
          (IF b = r.head THEN <<"*", " ">> ELSE <<" ", " ">>) \o b]
    \o (IF r.ohead
        THEN << <<" ", " ", "remotes/origin/", "HEAD", " ", "->", " ", "origin/main">> >>
        ELSE <<>>)
    \o [i \in 1..Len(SelectSeq(BranchOrder, LAMBDA b : b \in r.remotes)) |->
          <<" ", " ", "remotes/origin/">>
             \o SelectSeq(BranchOrder, LAMBDA x : x \in r.remotes)[i]]

\* Whether git accepts the command in repository state r.
GitAccepts(cmd, arg, r) ==
    CASE cmd = "status" -> TRUE
      [] cmd = "show-current" -> TRUE
      [] cmd = "branch-a" -> TRUE
      [] cmd = "get-url" -> r.origin
      [] cmd = "rev-parse-upstream" -> r.head /= EmptyStr /\ r.head \in r.upstream
      [] cmd = "add" -> TRUE
      [] cmd = "commit" -> \E i \in 1..Len(r.wt) : Staged(r.wt[i])
      [] cmd = "remote-add" -> ~(arg = <<"origin">> /\ r.origin)
      [] cmd = "set-upstream-to" ->
            /\ r.head \in r.locals
            /\ Len(arg) = 3 /\ arg[1] = "origin" /\ arg[2] = "/"
            /\ <<arg[3]>> \in r.remotes
      [] cmd = "push" -> r.origin /\ r.head \in r.locals /\ r.head \in r.upstream
      [] cmd = "push-u" ->
            /\ r.origin
            /\ Len(arg) = 3 /\ arg[1] = "origin" /\ arg[2] = " "
            /\ <<arg[3]>> \in r.locals
      [] cmd = "pull" -> r.origin /\ r.head \in r.locals /\ r.head \in r.upstream
      [] cmd = "checkout" -> arg \in r.locals \cup r.remotes
      [] cmd = "checkout-b" -> arg \in Names /\ arg \notin r.locals
      [] cmd = "branch-m" ->
            r.head /= EmptyStr /\ arg \in Names /\ arg \notin r.locals
      [] OTHER -> FALSE

\* The repository after an accepted command.
GitEffect(cmd, arg, r) ==
    CASE cmd = "add" -> [r EXCEPT !.wt = StageAll(r.wt)]
      [] cmd = "commit" ->
            [r EXCEPT !.wt = AfterCommit(r.wt),
                      !.locals = IF r.head = EmptyStr THEN @ ELSE @ \cup {r.head}]
      [] cmd = "remote-add" ->
            [r EXCEPT !.origin = IF arg = <<"origin">> THEN TRUE ELSE @]
      [] cmd = "set-upstream-to" -> [r EXCEPT !.upstream = @ \cup {r.head}]
      [] cmd = "push" -> [r EXCEPT !.remotes = @ \cup {r.head}]
      [] cmd = "push-u" ->
            [r EXCEPT !.remotes = @ \cup {<<arg[3]>>}, !.upstream = @ \cup {<<arg[3]>>}]
      [] cmd = "checkout" ->
            IF arg \in r.locals THEN [r EXCEPT !.head = arg]
            ELSE [r EXCEPT !.head = arg, !.locals = @ \cup {arg},
                           !.upstream = @ \cup {arg}]
      [] cmd = "checkout-b" ->
            IF Unborn(r) THEN [r EXCEPT !.head = arg]
            ELSE [r EXCEPT !.head = arg, !.locals = @ \cup {arg}]
      [] cmd = "branch-m" ->
            [r EXCEPT !.head = arg,
                      !.locals = IF r.head \in r.locals
                                 THEN (@ \ {r.head}) \cup {arg} ELSE @,
                      !.upstream = IF r.head \in r.upstream
                                   THEN (@ \ {r.head}) \cup {arg}
                                   ELSE @ \ {arg}]
      [] OTHER -> r

\* What an accepted command prints on stdout.
GitStdout(cmd, arg, r) ==
    CASE cmd = "status" -> JoinLines(StatusLines(r))
      [] cmd = "show-current" ->
            IF r.head = EmptyStr THEN <<>> ELSE r.head \o <<"\n">>
      [] cmd = "branch-a" -> JoinLines(BranchLines(r))
      [] cmd = "get-url" -> OriginUrl \o <<"\n">>
      [] cmd = "rev-parse-upstream" -> <<"origin/">> \o r.head \o <<"\n">>
      [] OTHER -> <<>>

\* What a refused command prints: git commit reports "nothing to commit" on
\* stdout and leaves stderr empty; the others explain themselves on stderr.
RefusalStdout(cmd, r) ==
    IF cmd = "commit"
    THEN (IF r.wt = <<>> THEN <<"nothing to commit, working tree clean">>
          ELSE <<"no changes added to commit">>) \o <<"\n">>
    ELSE <<>>

RefusalStderr(cmd) == IF cmd = "commit" THEN <<>> ELSE <<"fatal: ", cmd, " refused", "\n">>

Outcomes == {"ok", "err", "exc"}

\* subprocess.run(['git', '-C', path, ...]): the environment's outcome o is
\*   "ok"  - git runs to its end (and accepts or refuses the command),
\*   "err" - git exits non-zero for a reason outside the model (lock, network),
\*   "exc" - subprocess.run raises (TimeoutExpired, git not found).
\* A command that does not exit 0 leaves the repository as it was.
Git(cmd, arg, path, r, o) ==
    IF o = "exc"
    THEN [exc |-> TRUE, rc |-> 1, stdout |-> <<>>, stderr |-> <<>>, repo |-> r]
    ELSE IF o = "err"
    THEN [exc |-> FALSE, rc |-> 1, stdout |-> <<>>, stderr |-> EnvErr \o <<"\n">>, repo |-> r]
    ELSE IF ~GitFindsRepo(path)
    THEN [exc |-> FALSE, rc |-> 1, stdout |-> <<>>,
          stderr |-> <<"fatal: ", "not a git repository", "\n">>, repo |-> r]
    ELSE IF GitAccepts(cmd, arg, r)
    THEN [exc |-> FALSE, rc |-> 0, stdout |-> GitStdout(cmd, arg, r),
          stderr |-> <<>>, repo |-> GitEffect(cmd, arg, r)]
    ELSE [exc |-> FALSE, rc |-> 1, stdout |-> RefusalStdout(cmd, r),
          stderr |-> RefusalStderr(cmd), repo |-> r]

\* The record of one git invocation in a handler's trace; of an invocation
\* that exited non-zero it keeps what git printed.
GitEv(cmd, arg, path, t, g) ==
    [k |-> "git", name |-> cmd, arg |-> arg, path |-> path, t |-> t, d |-> 0,
     res |-> IF g.exc THEN "exc" ELSE IF g.rc = 0 THEN "ok" ELSE "fail",
     stdout |-> IF ~g.exc /\ g.rc /= 0 THEN g.stdout ELSE <<>>,
     stderr |-> IF ~g.exc /\ g.rc /= 0 THEN g.stderr ELSE <<>>]

\* ------------------------------------------------------------------ GitManager
\* Every helper takes the repository r and the outcome of each subprocess.run
\* it may make, and yields its Python return value, the repository afterwards
\* and the invocations it made (log). A helper named X_of works on the result
\* g of the invocation X made.

is_git_repo(path) == HasGitDir(path)

NoStatus == [none |-> TRUE, modified |-> 0, added |-> 0, deleted |-> 0, clean |-> FALSE]

IsModified(l) == StartsWith(l, <<" ", "M">>) \/ StartsWith(l, <<"M", " ">>)
IsAdded(l) == StartsWith(l, <<"A", " ">>) \/ StartsWith(l, <<"?", "?">>)
IsDeleted(l) == StartsWith(l, <<" ", "D">>) \/ StartsWith(l, <<"D", " ">>)

\* StatusOfLines taking every one-line output for a clean one.
StatusOfLines_one_line(lines) ==
    [none |-> FALSE,
     modified |-> Count(lines, IsModified),
     added |-> Count(lines, IsAdded),
     deleted |-> Count(lines, IsDeleted),
     clean |-> Len(lines) = 1]

\* The snapshot get_repo_status builds from the split output.
StatusOfLines(lines) ==
    [none |-> FALSE,
     modified |-> Count(lines, IsModified),
     added |-> Count(lines, IsAdded),
     deleted |-> Count(lines, IsDeleted),
     clean |-> Len(lines) = 1 /\ lines[1] = EmptyStr]

Succeeded(g) == ~g.exc /\ g.rc = 0

\* get_repo_status_of without the test of the exit code.
get_repo_status_of_unchecked(g, path) ==
    [val |-> IF ~g.exc THEN StatusOfLines(SplitLines(Strip(g.stdout))) ELSE NoStatus,
     log |-> <<GitEv("status", <<>>, path, 5, g)>>]

get_repo_status_of(g, path) ==
    [val |-> IF Succeeded(g) THEN StatusOfLines(SplitLines(Strip(g.stdout))) ELSE NoStatus,
     log |-> <<GitEv("status", <<>>, path, 5, g)>>]

get_repo_status(path, r, o) == get_repo_status_of(Git("status", <<>>, path, r, o), path)

get_current_branch_of(g, path) ==
    [val |-> IF Succeeded(g) THEN Strip(g.stdout) ELSE None,
     log |-> <<GitEv("show-current", <<>>, path, 2, g)>>]

get_current_branch(path, r, o) ==
    get_current_branch_of(Git("show-current", <<>>, path, r, o), path)

get_remote_url_of(g, path) ==
    [val |-> IF Succeeded(g) THEN Strip(g.stdout) ELSE None,
     log |-> <<GitEv("get-url", <<"origin">>, path, 2, g)>>]

get_remote_url(path, r, o) ==
    get_remote_url_of(Git("get-url", <<"origin">>, path, r, o), path)

has_upstream_branch_of(g, path) ==
    [val |-> Succeeded(g) /\ Strip(g.stdout) /= EmptyStr,
     log |-> <<GitEv("rev-parse-upstream", <<>>, path, 2, g)>>]

has_upstream_branch(path, r, o) ==
    has_upstream_branch_of(Git("rev-parse-upstream", <<>>, path, r, o), path)

\* One turn of the loop of get_all_branches: `stripped` is
\* line.strip().lstrip('* ').strip().
AddBranch(branches, stripped) ==
    IF stripped = EmptyStr \/ StartsWith(stripped, <<"remotes/origin/", "HEAD">>)
    THEN branches
    ELSE IF StartsWith(stripped, <<"remotes/origin/">>)
    THEN (IF RemoveToken(stripped, "remotes/origin/") \in SeqToSet(branches)
          THEN branches
          ELSE Append(branches, RemoveToken(stripped, "remotes/origin/")))
    ELSE (IF stripped \in SeqToSet(branches) THEN branches
          ELSE Append(branches, stripped))

RECURSIVE BranchesOf(_, _)
BranchesOf(lines, branches) ==
    IF lines = <<>> THEN branches
    ELSE BranchesOf(Tail(lines),
                    AddBranch(branches, Strip(LStripStarBlank(Strip(Head(lines))))))

get_all_branches_of(g, path) ==
    [val |-> IF Succeeded(g) THEN BranchesOf(SplitLines(Strip(g.stdout)), <<>>) ELSE <<>>,
     log |-> <<GitEv("branch-a", <<>>, path, 5, g)>>]

get_all_branches(path, r, o) ==
    get_all_branches_of(Git("branch-a", <<>>, path, r, o), path)

\* What a mutation returns after its last invocation g: (True, okMsg) on exit
\* 0, (False, stderr) on another exit code, (False, str(e)) on an exception;
\* `before` is the invocations made earlier in the call.
Returned(g, ev, okMsg, before) ==
    [ok |-> Succeeded(g),
     msg |-> IF g.exc THEN ExcText ELSE IF g.rc = 0 THEN okMsg ELSE g.stderr,
     repo |-> g.repo,
     log |-> Append(before, ev)]

\* The one-command mutations.
OneCommand(cmd, arg, path, t, okMsg, r, o) ==
    Returned(Git(cmd, arg, path, r, o), GitEv(cmd, arg, path, t, Git(cmd, arg, path, r, o)),
             okMsg, <<>>)

add_remote(path, name, url, r, o) ==
    OneCommand("remote-add", name, path, 5, <<"Remote added successfully">>, r, o)

\* set_upstream reporting success whatever the exit code.
set_upstream_unchecked(path, remote_name, branch_name, r, o) ==
    [OneCommand("set-upstream-to", remote_name \o <<"/">> \o branch_name, path, 5,
                <<"Upstream set successfully">>, r, o) EXCEPT !.ok = TRUE]

set_upstream(path, remote_name, branch_name, r, o) ==
    OneCommand("set-upstream-to", remote_name \o <<"/">> \o branch_name, path, 5,
               <<"Upstream set successfully">>, r, o)

\* A branch_name of None makes subprocess.run raise (TypeError), whatever the
\* environment.
push_set_upstream(path, remote_name, branch_name, r, o) ==
    OneCommand("push-u", remote_name \o <<" ">> \o branch_name, path, 30,
               <<"Push successful and upstream set">>, r,
               IF branch_name = None THEN "exc" ELSE o)

\* commit_changes after its staging step: the first failure ends the call.
commit_step(path, message, r, before, oCommit) ==
    Returned(Git("commit", message, path, r, oCommit),
             GitEv("commit", message, path, 5, Git("commit", message, path, r, oCommit)),
             <<"Commit successful">>, before)

\* commit_after_add without the test of the staging command's exit code.
commit_after_add_unchecked(ga, path, message, oCommit) ==
    IF ga.exc
    THEN [ok |-> FALSE, msg |-> ExcText, repo |-> ga.repo,
          log |-> <<GitEv("add", <<>>, path, 5, ga)>>]
    ELSE commit_step(path, message, ga.repo, <<GitEv("add", <<>>, path, 5, ga)>>, oCommit)

commit_after_add(ga, path, message, oCommit) ==
    IF ga.exc
    THEN [ok |-> FALSE, msg |-> ExcText, repo |-> ga.repo,
          log |-> <<GitEv("add", <<>>, path, 5, ga)>>]
    ELSE IF ga.rc /= 0
    THEN [ok |-> FALSE, msg |-> <<"Failed to stage files: ">> \o ga.stderr,
          repo |-> ga.repo, log |-> <<GitEv("add", <<>>, path, 5, ga)>>]
    ELSE commit_step(path, message, ga.repo, <<GitEv("add", <<>>, path, 5, ga)>>, oCommit)

commit_changes(path, message, add_all, r, oAdd, oCommit) ==
    IF add_all
    THEN commit_after_add(Git("add", <<>>, path, r, oAdd), path, message, oCommit)
    ELSE commit_step(path, message, r, <<>>, oCommit)

push_changes(path, r, o) ==
    OneCommand("push", <<>>, path, 30, <<"Push successful">>, r, o)

pull_changes(path, r, o) ==
    OneCommand("pull", <<>>, path, 30, <<"Pull successful">>, r, o)

checkout_branch(path, branch_name, r, o) ==
    OneCommand("checkout", branch_name, path, 5,
               <<"Switched to branch '">> \o branch_name \o <<"'">>, r, o)

create_branch(path, branch_name, r, o) ==
    OneCommand("checkout-b", branch_name, path, 5,
               <<"Created and switched to branch '">> \o branch_name \o <<"'">>, r, o)

\* rename_branch from `git branch -m` on.
rename_step(path, old_name, new_name, r, before, oRename) ==
    Returned(Git("branch-m", new_name, path, r, oRename),
             GitEv("branch-m", new_name, path, 5, Git("branch-m", new_name, path, r, oRename)),
             <<"Branch renamed from '">> \o old_name \o <<"' to '">> \o new_name \o <<"'">>,
             before)

\* rename_after_checkout without the test of the checkout's exit code.
rename_after_checkout_unchecked(gc, path, old_name, new_name, before, oRename) ==
    IF gc.exc
    THEN [ok |-> FALSE, msg |-> ExcText, repo |-> gc.repo,
          log |-> Append(before, GitEv("checkout", old_name, path, 5, gc))]
    ELSE rename_step(path, old_name, new_name, gc.repo,
                     Append(before, GitEv("checkout", old_name, path, 5, gc)), oRename)

\* rename_branch after the checkout of old_name (result gc).
rename_after_checkout(gc, path, old_name, new_name, before, oRename) ==
    IF gc.exc
    THEN [ok |-> FALSE, msg |-> ExcText, repo |-> gc.repo,
          log |-> Append(before, GitEv("checkout", old_name, path, 5, gc))]
    ELSE IF gc.rc /= 0
    THEN [ok |-> FALSE, msg |-> <<"Failed to checkout branch: ">> \o gc.stderr,
          repo |-> gc.repo,
          log |-> Append(before, GitEv("checkout", old_name, path, 5, gc))]
    ELSE rename_step(path, old_name, new_name, gc.repo,
                     Append(before, GitEv("checkout", old_name, path, 5, gc)), oRename)

\* rename_from without the switch to old_name.
rename_from_without_checkout(cur, path, old_name, new_name, r, oCheckout, oRename) ==
    rename_step(path, old_name, new_name, r, cur.log, oRename)

\* rename_branch once current_branch (cur) is known.
rename_from(cur, path, old_name, new_name, r, oCheckout, oRename) ==
    IF cur.val /= old_name
    THEN rename_after_checkout(Git("checkout", old_name, path, r, oCheckout),
                               path, old_name, new_name, cur.log, oRename)
    ELSE rename_step(path, old_name, new_name, r, cur.log, oRename)

rename_branch(path, old_name, new_name, r, oCur, oCheckout, oRename) ==
    rename_from(get_current_branch(path, r, oCur), path, old_name, new_name, r,
                oCheckout, oRename)

\* ------------------------------------------------------------------- state
VARIABLES
    repo,          \* the repository at "proj", as git sees it
    current_path,  \* FileExplorer.current_path
    history,       \* FileExplorer.history
    ui,            \* the widgets of the main window
    dlg,           \* the modal dialog that is open, if any
    trace,         \* what the last handler did, in order
    ret            \* the return value of the last direct GitManager call

vars == <<repo, current_path, history, ui, dlg, trace, ret>>

\* A handler works on st = [repo, ui, tr]: the repository, the widgets and the
\* events so far. An event carries d, the number of update_git_status_display
\* calls on the stack when it happened.
AtDepth(log, d) == [i \in 1..Len(log) |-> [log[i] EXCEPT !.d = d]]

MsgEv(kind, title, text, reply, d) ==
    [k |-> "msg", kind |-> kind, title |-> title, text |-> text, reply |-> reply, d |-> d]

RefreshEv(path, d) == [k |-> "refresh", path |-> path, d |-> d]
CloseEv(how) == [k |-> "close", how |-> how, d |-> 0]
OpenEv(what, path) == [k |-> "open", what |-> what, path |-> path, d |-> 0]

Log(st, evs) == [st EXCEPT !.tr = @ \o evs]

\* st after a GitManager call that returned res at depth d.
Ran(st, res, d) == [st EXCEPT !.repo = res.repo, !.tr = @ \o AtDepth(res.log, d)]

\* st after a GitManager query that returned q at depth d.
Asked(st, q, d) == [st EXCEPT !.tr = @ \o AtDepth(q.log, d)]

\* ----------------------------------------------------------- QComboBox
\* items, idx (0: no current item) and blocked (blockSignals) of branch_combo.
ComboText(u) == IF u.idx = 0 THEN EmptyStr ELSE u.items[u.idx]

\* QComboBox.findText: 0 when absent.
FindText(items, text) ==
    IF \E i \in 1..Len(items) : items[i] = text
    THEN CHOOSE i \in 1..Len(items) :
            items[i] = text /\ \A j \in 1..(i - 1) : items[j] /= text
    ELSE 0

\* One call on the branch controls; op is [f, a]:
\*   clear(), addItems(a), setCurrentText(a), blockSignals(a), and
\*   "setEnabled": setEnabled(a) on branch_combo, new_branch_button and
\*   rename_branch_button. setCurrentText leaves the index alone when the text
\*   is not an item (None is taken as the null string).
ComboCall(u, op) ==
    CASE op.f = "clear" -> [u EXCEPT !.items = <<>>, !.idx = 0]
      [] op.f = "addItems" ->
            [u EXCEPT !.items = @ \o op.a,
                      !.idx = IF u.idx = 0 /\ u.items \o op.a /= <<>> THEN 1 ELSE @]
      [] op.f = "setCurrentText" ->
            [u EXCEPT !.idx = IF FindText(u.items, op.a) = 0 THEN @
                              ELSE FindText(u.items, op.a)]
      [] op.f = "blockSignals" -> [u EXCEPT !.blocked = op.a]
      [] op.f = "setEnabled" ->
            [u EXCEPT !.combo_en = op.a, !.new_en = op.a, !.rename_en = op.a]
      [] OTHER -> u

Op(f, a) == [f |-> f, a |-> a]

\* ------------------------------------------------------- environment inputs
\* The environment of one handler run: the level says how git answers the
\* read-only queries ("ok": all answer; "slow": the queries with the 2-second
\* timeout time out), reply is the user's answer to a confirmation, m the
\* outcome of the handler's mutation ("ok": git runs to its end; "err": it
\* exits non-zero for an outside reason).
Levels == {"ok", "slow"}
Replies == {"Yes", "No"}

\* The outcome of a query with the given timeout at a level.
QAt(level, t) ==
    IF level = "slow" /\ t = 2 THEN "exc" ELSE "ok"

UiOutcomes == {"ok", "err"}

Inp(level, reply, m) == [level |-> level, reply |-> reply, m |-> m]

\* Inputs of a handler that only refreshes.
RefreshInputs(path) ==
    {Inp(l, "No", "ok") : l \in (IF is_git_repo(path) THEN Levels ELSE {"ok"})}

\* Inputs of a handler that asks for a confirmation and then runs one command.
AskInputs ==
    {Inp(l, "No", "ok") : l \in Levels}
        \cup {Inp(l, "Yes", m) : l \in Levels, m \in UiOutcomes}

\* The same when nothing is asked of git before the confirmation.
ConfirmInputs ==
    {Inp("ok", "No", "ok")} \cup {Inp(l, "Yes", m) : l \in Levels, m \in UiOutcomes}

\* ------------------------------------------- FileExplorer: the status display
NoRepoLabel == [branch |-> None, status |-> NoStatus, repo |-> FALSE]

SetLabel(st, branch, status, path) ==
    [st EXCEPT !.ui.label = [branch |-> branch, status |-> status, repo |-> TRUE],
               !.ui.derived_for = path]

RECURSIVE RunCombo(_, _, _, _, _)
RECURSIVE on_branch_changed(_, _, _, _, _)

\* currentTextChanged reaches on_branch_changed when signals are not blocked
\* and the call changed the current text (old is the text before the call).
Deliver(st, old, path, inp, d) ==
    IF ~st.ui.blocked /\ ComboText(st.ui) /= old /\ d <= MaxNest
    THEN on_branch_changed(st, ComboText(st.ui), path, inp, d)
    ELSE st

Called(st, op) == [st EXCEPT !.ui = ComboCall(@, op)]

\* The calls ops made on the branch controls in order, each followed by the
\* slots its signal runs.
RunCombo(st, ops, path, inp, d) ==
    IF ops = <<>> THEN st
    ELSE RunCombo(Deliver(Called(st, Head(ops)), ComboText(st.ui), path, inp, d),
                  Tail(ops), path, inp, d)

\* The calls of the not-a-repository branch.
ClearOps == <<Op("clear", <<>>), Op("setEnabled", FALSE)>>

\* SelectorOps without the two blockSignals calls.
SelectorOps_unblocked(current_branch, branches) ==
    <<Op("clear", <<>>)>>
    \o (IF branches /= <<>>
        THEN <<Op("addItems", branches)>>
             \o (IF current_branch \in SeqToSet(branches)
                 THEN <<Op("setCurrentText", current_branch)>> ELSE <<>>)
             \o <<Op("setEnabled", TRUE)>>
        ELSE <<Op("setEnabled", FALSE)>>)

\* The calls update_branch_selector makes for a repository.
SelectorOps(current_branch, branches) ==
    <<Op("blockSignals", TRUE), Op("clear", <<>>)>>
    \o (IF branches /= <<>>
        THEN <<Op("addItems", branches)>>
             \o (IF current_branch \in SeqToSet(branches)
                 THEN <<Op("setCurrentText", current_branch)>> ELSE <<>>)
             \o <<Op("setEnabled", TRUE)>>
        ELSE <<Op("setEnabled", FALSE)>>)
    \o <<Op("blockSignals", FALSE)>>

ubs_fill(st, current_branch, branches, path, inp, d) ==
    RunCombo(Asked(st, branches, d), SelectorOps(current_branch, branches.val), path, inp, d)

ubs_branches(st, cur, path, inp, d) ==
    ubs_fill(Asked(st, cur, d), cur.val,
             get_all_branches(path, st.repo, QAt(inp.level, 5)), path, inp, d)

update_branch_selector(st, path, inp, d) ==
    IF ~is_git_repo(path)
    THEN RunCombo(st, ClearOps, path, inp, d)
    ELSE ubs_branches(st, get_current_branch(path, st.repo, QAt(inp.level, 2)),
                      path, inp, d)

ugsd_label(st, branch, status, path, inp, d) ==
    update_branch_selector(SetLabel(Asked(st, status, d), branch, status.val, path),
                           path, inp, d)

ugsd_status(st, branch, path, inp, d) ==
    ugsd_label(Asked(st, branch, d), branch.val,
               get_repo_status(path, st.repo, QAt(inp.level, 5)), path, inp, d)

\* update_git_status_display leaving the branch controls alone outside a
\* repository.
ugsd_at_keeping_controls(st, path, inp, d) ==
    IF is_git_repo(path)
    THEN ugsd_status(st, get_current_branch(path, st.repo, QAt(inp.level, 2)),
                     path, inp, d)
    ELSE [st EXCEPT !.ui.label = NoRepoLabel, !.ui.derived_for = path]

\* update_git_status_display called with d calls of it on the stack already.
ugsd_at(st, path, inp, d) ==
    IF is_git_repo(path)
    THEN ugsd_status(st, get_current_branch(path, st.repo, QAt(inp.level, 2)),
                     path, inp, d)
    ELSE RunCombo([st EXCEPT !.ui.label = NoRepoLabel, !.ui.derived_for = path],
                  ClearOps, path, inp, d)

update_git_status_display(st, path, inp, d) ==
    ugsd_at(Log(st, <<RefreshEv(path, d + 1)>>), path, inp, d + 1)

\* The else-branches of on_branch_changed: the selection goes back to
\* current_branch with the signals blocked.
RevertOps(current_branch) ==
    <<Op("blockSignals", TRUE), Op("setCurrentText", current_branch),
      Op("blockSignals", FALSE)>>

obc_revert(st, current_branch, path, inp, d) ==
    RunCombo(st, RevertOps(current_branch), path, inp, d)

obc_checked_out(st, co, current_branch, path, inp, d) ==
    IF co.ok
    THEN update_git_status_display(Ran(st, co, d), path, inp, d)
    ELSE obc_revert(Log(Ran(st, co, d),
                        <<MsgEv("critical", "Checkout Failed",
                                <<"Failed to switch branch:\n">> \o co.msg, "Ok", d)>>),
                    current_branch, path, inp, d)

obc_asked(st, branch_name, current_branch, path, inp, d) ==
    IF inp.reply = "Yes"
    THEN obc_checked_out(st, checkout_branch(path, branch_name, st.repo, inp.m),
                         current_branch, path, inp, d)
    ELSE obc_revert(st, current_branch, path, inp, d)

obc_current(st, branch_name, cur, path, inp, d) ==
    IF branch_name = cur.val THEN Asked(st, cur, d)
    ELSE obc_asked(Log(Asked(st, cur, d),
                       <<MsgEv("question", "Switch Branch",
                               <<"Switch from '">> \o cur.val \o <<"' to '">>
                                   \o branch_name \o <<"'?">>, inp.reply, d)>>),
                   branch_name, cur.val, path, inp, d)

on_branch_changed(st, branch_name, path, inp, d) ==
    IF ~Truthy(branch_name) \/ ~is_git_repo(path) THEN st
    ELSE obc_current(st, branch_name,
                     get_current_branch(path, st.repo, QAt(inp.level, 2)), path, inp, d)

\* update_git_buttons setting the Git Commit action only.
update_git_buttons_commit_only(st, path, inp) ==
    update_git_status_display([st EXCEPT !.ui.commit_en = is_git_repo(path)], path, inp, 0)

\* update_git_buttons and update_path_bar (the path bar's text and the
\* breadcrumbs follow current_path and are not kept apart from it).
update_git_buttons(st, path, inp) ==
    update_git_status_display(
        [st EXCEPT !.ui.commit_en = is_git_repo(path), !.ui.pull_en = is_git_repo(path),
                   !.ui.push_en = is_git_repo(path)],
        path, inp, 0)

\* update_path_bar without its call of update_git_buttons.
update_path_bar_text_only(st, path, inp) == st

update_path_bar(st, path, inp) == update_git_buttons(st, path, inp)

\* ------------------------------------------------------------ construction
\* No modal dialog is open.
NoDialog ==
    [mode |-> "none", path |-> HomePath, push_en |-> FALSE, add_btn |-> FALSE]

Idle == dlg.mode = "none"

\* The widgets as FileExplorer.__init__ creates them.
InitUi0 ==
    [commit_en |-> FALSE, pull_en |-> FALSE, push_en |-> FALSE,
     label |-> NoRepoLabel, derived_for |-> HomePath,
     items |-> <<>>, idx |-> 0, blocked |-> FALSE,
     combo_en |-> FALSE, new_en |-> FALSE, rename_en |-> FALSE]

\* The repositories the explorer may find at "proj": one made by `git init`
\* with an untracked file; a local one with two branches and a modified file;
\* a clone on main with a modified file.
InitRepos ==
    {[head |-> B_main, locals |-> {}, remotes |-> {}, upstream |-> {},
      origin |-> FALSE, ohead |-> FALSE, wt |-> << <<"?", "?">> >>],
     [head |-> B_main, locals |-> {B_main, B_dev}, remotes |-> {}, upstream |-> {},
      origin |-> FALSE, ohead |-> FALSE, wt |-> << <<" ", "M">> >>],
     [head |-> B_main, locals |-> {B_main}, remotes |-> {B_main, B_dev},
      upstream |-> {B_main}, origin |-> TRUE, ohead |-> TRUE,
      wt |-> << <<" ", "M">> >>]}

\* A handler starts on the current repository and widgets with no event yet,
\* and ends by leaving its result in the state.
Start == [repo |-> repo, ui |-> ui, tr |-> <<>>]

Finish(st) == repo' = st.repo /\ ui' = st.ui /\ trace' = st.tr

\* __init__ calls update_path_bar and later update_git_buttons.
Constructed(r) ==
    update_git_buttons(
        update_path_bar([repo |-> r, ui |-> InitUi0, tr |-> <<>>], HomePath,
                        Inp("ok", "No", "ok")),
        HomePath, Inp("ok", "No", "ok"))

Init ==
    /\ repo \in InitRepos
    /\ current_path = HomePath
    /\ history = <<>>
    /\ dlg = NoDialog
    /\ ret = [fn |-> "none"]
    /\ \E st \in {Constructed(repo)} : ui = st.ui /\ trace = st.tr

\* --------------------------------------------------------------- navigation
\* NavigateTo leaving the history as it is.
NavigateTo_without_push(path) ==
    /\ Len(history) < MaxHist
    /\ history' = history
    /\ current_path' = path
    /\ \E inp \in RefreshInputs(path) :
          \E st \in {update_path_bar(Start, path, inp)} : Finish(st)
    /\ UNCHANGED <<dlg, ret>>

\* The common body of the handlers that move to path, pushing current_path.
NavigateTo(path) ==
    /\ Len(history) < MaxHist
    /\ history' = Append(history, current_path)
    /\ current_path' = path
    /\ \E inp \in RefreshInputs(path) :
          \E st \in {update_path_bar(Start, path, inp)} : Finish(st)
    /\ UNCHANGED <<dlg, ret>>

\* A handler whose guard fails: only the status bar's message changes.
NothingHappens ==
    /\ trace' = <<>>
    /\ UNCHANGED <<repo, current_path, history, ui, dlg, ret>>

BreadcrumbClicked ==
    /\ Idle
    /\ \E path \in Segments(current_path) :
          IF IsDir(path) THEN NavigateTo(path) ELSE NothingHappens

\* go_back: with an empty history it does nothing.
GoBack ==
    /\ Idle
    /\ IF history = <<>> THEN NothingHappens
       ELSE /\ current_path' = history[Len(history)]
            /\ history' = SubSeq(history, 1, Len(history) - 1)
            /\ \E inp \in RefreshInputs(history[Len(history)]) :
                  \E st \in {update_path_bar(Start, history[Len(history)], inp)} :
                      Finish(st)
            /\ UNCHANGED <<dlg, ret>>

GoHome ==
    /\ Idle
    /\ current_path /= HomePath
    /\ NavigateTo(HomePath)

DoubleClick ==
    /\ Idle
    /\ \E path \in Children(current_path) :
          IF IsDir(path) THEN NavigateTo(path)
          ELSE /\ trace' = <<OpenEv("xdg-open", path)>>
               /\ UNCHANGED <<repo, current_path, history, ui, dlg, ret>>

SidebarNavigate ==
    /\ Idle
    /\ \E path \in SidebarPlaces : NavigateTo(path)

PathBarEntered ==
    /\ Idle
    /\ \E path \in Paths :
          IF IsDir(path) THEN NavigateTo(path) ELSE NothingHappens

\* ------------------------------------------------------ branch operations
\* The user picks another entry of the enabled selector.
SelectBranch ==
    /\ Idle
    /\ ui.combo_en
    /\ \E i \in 1..Len(ui.items), inp \in AskInputs :
          /\ i /= ui.idx
          /\ \E st \in {Deliver([Start EXCEPT !.ui.idx = i], ComboText(ui),
                                current_path, inp, 0)} : Finish(st)
    /\ UNCHANGED <<current_path, history, dlg, ret>>

\* What the user may type into a name prompt.
BranchTexts == {EmptyStr, <<" ">>, B_main, <<" ">> \o B_dev}

\* The answer to QInputDialog.getText and the environment afterwards.
TextInputs ==
    {[ok |-> FALSE, text |-> EmptyStr, level |-> "ok", m |-> "ok"]}
        \cup {[ok |-> TRUE, text |-> t, level |-> "ok", m |-> "ok"] :
                 t \in {EmptyStr, <<" ">>}}
        \cup {[ok |-> TRUE, text |-> t, level |-> l, m |-> m] :
                 t \in BranchTexts \ {EmptyStr, <<" ">>}, l \in Levels, m \in UiOutcomes}

cnb_created(st, res, path, inp) ==
    IF res.ok
    THEN update_git_status_display(
             Log(Ran(st, res, 0), <<MsgEv("information", "Success", res.msg, "Ok", 0)>>),
             path, inp, 0)
    ELSE Log(Ran(st, res, 0),
             <<MsgEv("critical", "Failed",
                     <<"Failed to create branch:\n">> \o res.msg, "Ok", 0)>>)

create_new_branch(st, path, inp) ==
    IF ~is_git_repo(path) THEN st
    ELSE IF inp.ok /\ inp.text /= EmptyStr
    THEN (IF Strip(inp.text) = EmptyStr
          THEN Log(st, <<MsgEv("warning", "Invalid Name",
                               <<"Branch name cannot be empty.">>, "Ok", 0)>>)
          ELSE cnb_created(st, create_branch(path, Strip(inp.text), st.repo, inp.m),
                           path, inp))
    ELSE st

CreateNewBranch ==
    /\ Idle
    /\ ui.new_en
    /\ \E inp \in TextInputs :
          \E st \in {create_new_branch(Start, current_path, inp)} : Finish(st)
    /\ UNCHANGED <<current_path, history, dlg, ret>>

rcb_renamed(st, res, path, inp) ==
    IF res.ok
    THEN update_git_status_display(
             Log(Ran(st, res, 0), <<MsgEv("information", "Success", res.msg, "Ok", 0)>>),
             path, inp, 0)
    ELSE Log(Ran(st, res, 0),
             <<MsgEv("critical", "Failed",
                     <<"Failed to rename branch:\n">> \o res.msg, "Ok", 0)>>)

rcb_named(st, current_branch, path, inp) ==
    IF inp.ok /\ inp.text /= EmptyStr
    THEN (IF Strip(inp.text) = EmptyStr
          THEN Log(st, <<MsgEv("warning", "Invalid Name",
                               <<"Branch name cannot be empty.">>, "Ok", 0)>>)
          ELSE IF Strip(inp.text) = current_branch THEN st
          ELSE rcb_renamed(st, rename_branch(path, current_branch, Strip(inp.text),
                                             st.repo, QAt(inp.level, 2), inp.m, inp.m),
                           path, inp))
    ELSE st

rcb_current(st, cur, path, inp) ==
    IF ~Truthy(cur.val)
    THEN Log(Asked(st, cur, 0),
             <<MsgEv("warning", "No Branch",
                     <<"Could not determine current branch.">>, "Ok", 0)>>)
    ELSE rcb_named(Asked(st, cur, 0), cur.val, path, inp)

rename_current_branch(st, path, inp) ==
    IF ~is_git_repo(path) THEN st
    ELSE rcb_current(st, get_current_branch(path, st.repo, QAt(inp.level, 2)), path, inp)

RenameCurrentBranch ==
    /\ Idle
    /\ ui.rename_en
    /\ \E inp \in TextInputs :
          \E st \in {rename_current_branch(Start, current_path, inp)} : Finish(st)
    /\ UNCHANGED <<current_path, history, dlg, ret>>

\* ------------------------------------------------------------ pull and push
\* The four pull/push handlers differ in the command (what: "pull" or
\* "push"), in the repository they act on (target) and in the guard.
pp_done(st, what, res, shown, inp) ==
    update_git_status_display(
        Log(Ran(st, res, 0),
            <<IF res.ok
              THEN MsgEv("information", "Success",
                         <<"Changes ", what, "ed successfully!">>, "Ok", 0)
              ELSE MsgEv("critical", IF what = "pull" THEN "Pull Failed" ELSE "Push Failed",
                         <<"Failed to ", what, " changes:\n">> \o res.msg, "Ok", 0)>>),
        shown, inp, 0)

\* pp_asked running the command whatever the answer.
pp_asked_whatever_the_answer(st, what, target, shown, inp) ==
    pp_done(st, what,
            IF what = "pull" THEN pull_changes(target, st.repo, inp.m)
            ELSE push_changes(target, st.repo, inp.m),
            shown, inp)

pp_asked(st, what, target, shown, inp) ==
    IF inp.reply = "Yes"
    THEN pp_done(st, what,
                 IF what = "pull" THEN pull_changes(target, st.repo, inp.m)
                 ELSE push_changes(target, st.repo, inp.m),
                 shown, inp)
    ELSE st

PullOrPush(st, what, target, shown, inp) ==
    pp_asked(Log(st, <<MsgEv("question", IF what = "pull" THEN "Git Pull" ELSE "Git Push",
                             <<what, " ", target>>, inp.reply, 0)>>),
             what, target, shown, inp)

git_pull(st, path, inp) ==
    IF ~is_git_repo(path) THEN st ELSE PullOrPush(st, "pull", path, path, inp)

git_push(st, path, inp) ==
    IF ~is_git_repo(path) THEN st ELSE PullOrPush(st, "push", path, path, inp)

git_pull_for_path(st, path, shown, inp) == PullOrPush(st, "pull", path, shown, inp)

git_push_for_path(st, path, shown, inp) == PullOrPush(st, "push", path, shown, inp)

GitPull ==
    /\ Idle
    /\ ui.pull_en
    /\ \E inp \in ConfirmInputs :
          \E st \in {git_pull(Start, current_path, inp)} : Finish(st)
    /\ UNCHANGED <<current_path, history, dlg, ret>>

GitPush ==
    /\ Idle
    /\ ui.push_en
    /\ \E inp \in ConfirmInputs :
          \E st \in {git_push(Start, current_path, inp)} : Finish(st)
    /\ UNCHANGED <<current_path, history, dlg, ret>>

\* open_context_menu offers the Git actions on a directory entry that is a
\* repository.
MenuRepos == {p \in Children(current_path) : IsDir(p) /\ is_git_repo(p)}

GitPullForPath ==
    /\ Idle
    /\ \E path \in MenuRepos, inp \in ConfirmInputs :
          \E st \in {git_pull_for_path(Start, path, current_path, inp)} : Finish(st)
    /\ UNCHANGED <<current_path, history, dlg, ret>>

GitPushForPath ==
    /\ Idle
    /\ \E path \in MenuRepos, inp \in ConfirmInputs :
          \E st \in {git_push_for_path(Start, path, current_path, inp)} : Finish(st)
    /\ UNCHANGED <<current_path, history, dlg, ret>>

\* ------------------------------------------------------------ commit dialog
\* GitCommitDialog.__init__: the four queries; the push checkbox is enabled
\* and the Add Remote button left out when an origin URL was found.
\* GitCommitDialog.__init__ enabling the push checkbox whatever the remote.
gcd_built_push_enabled(remote, repo_path) ==
    [mode |-> "commit", path |-> repo_path, push_en |-> TRUE,
     add_btn |-> ~Truthy(remote.val)]

gcd_built(remote, repo_path) ==
    [mode |-> "commit", path |-> repo_path, push_en |-> Truthy(remote.val),
     add_btn |-> ~Truthy(remote.val)]

GitCommitDialog_log(repo_path, r, level) ==
    get_repo_status(repo_path, r, QAt(level, 5)).log
        \o get_current_branch(repo_path, r, QAt(level, 2)).log
        \o get_remote_url(repo_path, r, QAt(level, 2)).log
        \o has_upstream_branch(repo_path, r, QAt(level, 2)).log

OpenCommitDialog(repo_path) ==
    \E level \in Levels :
        /\ dlg' = gcd_built(get_remote_url(repo_path, repo, QAt(level, 2)), repo_path)
        /\ trace' = <<OpenEv("GitCommitDialog", repo_path)>>
                        \o GitCommitDialog_log(repo_path, repo, level)
        /\ UNCHANGED <<repo, current_path, history, ui, ret>>

\* show_git_commit_dialog up to dialog.exec().
ShowGitCommitDialog ==
    /\ Idle
    /\ ui.commit_en
    /\ IF ~is_git_repo(current_path)
       THEN /\ trace' = <<MsgEv("warning", "Not a Git Repository",
                                <<"The current directory is not a Git repository.">>,
                                "Ok", 0)>>
            /\ UNCHANGED <<repo, current_path, history, ui, dlg, ret>>
       ELSE OpenCommitDialog(current_path)

\* show_git_commit_for_path up to dialog.exec().
ShowGitCommitForPath ==
    /\ Idle
    /\ \E path \in MenuRepos : OpenCommitDialog(path)

\* dialog.exec() returned: both callers refresh after Accepted and do nothing
\* after Rejected.
Exec_returned(st, how, inp) ==
    IF how = "accept"
    THEN update_git_status_display(Log(st, <<CloseEv(how)>>), current_path, inp, 0)
    ELSE Log(st, <<CloseEv(how)>>)

MessageTexts == {<<" ">>, <<"fix">>}

\* The commit dialog's inputs: the text and the two checkboxes as the user
\* left them, the outcomes of staging, commit and push, the level of the
\* queries and the answer to the upstream question.
CommitInputs ==
    {[text |-> <<" ">>, add_all |-> TRUE, push |-> FALSE, oAdd |-> "ok",
      oCommit |-> "ok", level |-> "ok", reply |-> "No", m |-> "ok"]}
    \cup {[text |-> <<"fix">>, add_all |-> a, push |-> FALSE, oAdd |-> o[1],
           oCommit |-> o[2], level |-> "ok", reply |-> "No", m |-> "ok"] :
             a \in BOOLEAN, o \in {<<"ok", "err">>, <<"err", "ok">>}}
    \cup {[text |-> <<"fix">>, add_all |-> a, push |-> FALSE, oAdd |-> "ok",
           oCommit |-> "ok", level |-> l, reply |-> "No", m |-> "ok"] :
             a \in BOOLEAN, l \in Levels}
    \cup {[text |-> <<"fix">>, add_all |-> TRUE, push |-> TRUE, oAdd |-> "ok",
           oCommit |-> "ok", level |-> l, reply |-> rp, m |-> m] :
             l \in Levels, rp \in Replies, m \in UiOutcomes}

PushedMsg(res, okText) ==
    IF res.ok THEN MsgEv("information", "Success", okText, "Ok", 0)
    ELSE MsgEv("warning", "Push Failed",
               <<"Commit succeeded but push failed:\n">> \o res.msg, "Ok", 0)

\* After push_changes (either call site): a message, then accept().
commit_pushed(st, res, inp) ==
    Exec_returned(
        Log(Ran(st, res, 0),
            <<PushedMsg(res, <<"Changes committed and pushed successfully!">>)>>),
        "accept", inp)

\* After push_set_upstream: a failure returns with the dialog open.
commit_upstream_set(st, res, inp) ==
    IF ~res.ok
    THEN Log(Ran(st, res, 0),
             <<MsgEv("critical", "Push Failed",
                     <<"Failed to push and set upstream:\n">> \o res.msg, "Ok", 0)>>)
    ELSE Exec_returned(
             Log(Ran(st, res, 0),
                 <<MsgEv("information", "Success",
                         <<"Changes committed and pushed successfully!\n",
                           "Upstream branch has been set.">>, "Ok", 0)>>),
             "accept", inp)

commit_asked(st, branch, repo_path, inp) ==
    IF inp.reply = "Yes"
    THEN commit_upstream_set(st, push_set_upstream(repo_path, <<"origin">>, branch,
                                                   st.repo, inp.m), inp)
    ELSE commit_pushed(st, push_changes(repo_path, st.repo, inp.m), inp)

commit_no_upstream(st, branch, repo_path, inp) ==
    commit_asked(
        Log(Asked(st, branch, 0),
            <<MsgEv("question", "Set Upstream Branch",
                    <<"The branch '">> \o branch.val \o <<"' has no upstream branch.">>,
                    inp.reply, 0)>>),
        branch.val, repo_path, inp)

commit_upstream_known(st, has_upstream, repo_path, inp) ==
    IF ~has_upstream.val
    THEN commit_no_upstream(Asked(st, has_upstream, 0),
                            get_current_branch(repo_path, st.repo, QAt(inp.level, 2)),
                            repo_path, inp)
    ELSE commit_pushed(Asked(st, has_upstream, 0),
                       push_changes(repo_path, st.repo, inp.m), inp)

\* commit_committed without the return after "Commit Failed".
commit_committed_continuing(st, res, repo_path, inp) ==
    IF inp.push
    THEN commit_upstream_known(
             Log(Ran(st, res, 0),
                 <<MsgEv("critical", "Commit Failed",
                         <<"Failed to commit:\n">> \o res.msg, "Ok", 0)>>),
             has_upstream_branch(repo_path, res.repo, QAt(inp.level, 2)),
             repo_path, inp)
    ELSE Exec_returned(
             Log(Ran(st, res, 0),
                 <<MsgEv("information", "Success",
                         <<"Changes committed successfully!">>, "Ok", 0)>>),
             "accept", inp)

commit_committed(st, res, repo_path, inp) ==
    IF ~res.ok
    THEN Log(Ran(st, res, 0),
             <<MsgEv("critical", "Commit Failed",
                     <<"Failed to commit:\n">> \o res.msg, "Ok", 0)>>)
    ELSE IF inp.push
    THEN commit_upstream_known(Ran(st, res, 0),
                               has_upstream_branch(repo_path, res.repo, QAt(inp.level, 2)),
                               repo_path, inp)
    ELSE Exec_returned(
             Log(Ran(st, res, 0),
                 <<MsgEv("information", "Success",
                         <<"Changes committed successfully!">>, "Ok", 0)>>),
             "accept", inp)

\* GitCommitDialog.commit, and what the caller of exec() does when it accepts.
commit(st, repo_path, inp) ==
    IF Strip(inp.text) = EmptyStr
    THEN Log(st, <<MsgEv("warning", "Empty Message",
                         <<"Please enter a commit message.">>, "Ok", 0)>>)
    ELSE commit_committed(st, commit_changes(repo_path, Strip(inp.text), inp.add_all,
                                             st.repo, inp.oAdd, inp.oCommit),
                          repo_path, inp)

Closed(tr) == \E i \in 1..Len(tr) : tr[i].k = "close"

GitOk(tr, name) ==
    \E i \in 1..Len(tr) : tr[i].k = "git" /\ tr[i].name = name /\ tr[i].res = "ok"

DlgCommit ==
    /\ dlg.mode = "commit"
    /\ \E inp \in CommitInputs :
          /\ inp.push => dlg.push_en
          /\ \E st \in {commit(Start, dlg.path, inp)} :
                /\ Finish(st)
                /\ dlg' = IF Closed(st.tr) THEN NoDialog ELSE dlg
    /\ UNCHANGED <<current_path, history, ret>>

\* Cancel (reject): exec() returns Rejected.
DlgCancel ==
    /\ dlg.mode = "commit"
    /\ dlg' = NoDialog
    /\ \E st \in {Exec_returned(Start, "reject", Inp("ok", "No", "ok"))} : Finish(st)
    /\ UNCHANGED <<current_path, history, ret>>

\* ------------------------------------------------------------ remote dialog
\* show_add_remote_dialog up to dialog.exec(): the button exists when no
\* origin URL was found at construction.
DlgOpenRemote ==
    /\ dlg.mode = "commit"
    /\ dlg.add_btn
    /\ dlg' = [dlg EXCEPT !.mode = "remote"]
    /\ trace' = <<OpenEv("GitRemoteDialog", dlg.path)>>
    /\ UNCHANGED <<repo, current_path, history, ui, ret>>

\* The remote dialog's inputs: the two texts and the checkbox, the outcome of
\* add_remote (oAdd) and of set_upstream (m), the level of the queries.
RemoteInputs ==
    {[name |-> n[1], url |-> n[2], set_upstream |-> FALSE, oAdd |-> "ok",
      level |-> "ok", m |-> "ok"] :
         n \in {<<EmptyStr, OriginUrl>>, <<<<"origin">>, <<" ">>>>}}
    \cup {[name |-> <<"origin">>, url |-> OriginUrl, set_upstream |-> FALSE, oAdd |-> o,
           level |-> "ok", m |-> "ok"] : o \in {"err"}}
    \cup {[name |-> <<"origin">>, url |-> OriginUrl, set_upstream |-> FALSE, oAdd |-> "ok",
           level |-> l, m |-> "ok"] : l \in Levels}
    \cup {[name |-> <<"origin">>, url |-> OriginUrl, set_upstream |-> TRUE, oAdd |-> "ok",
           level |-> l, m |-> m] : l \in Levels, m \in UiOutcomes}

\* show_add_remote_dialog after exec() returned Accepted.
sard_remote(st, remote, inp) ==
    IF Truthy(remote.val)
    THEN update_git_status_display(Asked(st, remote, 0), current_path, inp, 0)
    ELSE Asked(st, remote, 0)

show_add_remote_dialog_accepted(st, repo_path, inp) ==
    sard_remote(Log(st, <<CloseEv("accept")>>),
                get_remote_url(repo_path, st.repo, QAt(inp.level, 2)), inp)

ar_upstream_set(st, res, remote_name, repo_path, inp) ==
    show_add_remote_dialog_accepted(
        Log(Ran(st, res, 0),
            <<IF res.ok
              THEN MsgEv("information", "Success",
                         <<"Remote '">> \o remote_name \o <<"' added successfully!">>,
                         "Ok", 0)
              ELSE MsgEv("warning", "Upstream Failed",
                         <<"Remote added but failed to set upstream:\n">> \o res.msg,
                         "Ok", 0)>>),
        repo_path, inp)

ar_branch(st, branch, remote_name, repo_path, inp) ==
    IF Truthy(branch.val)
    THEN ar_upstream_set(Asked(st, branch, 0),
                         set_upstream(repo_path, remote_name, branch.val, st.repo, inp.m),
                         remote_name, repo_path, inp)
    ELSE show_add_remote_dialog_accepted(
             Log(Asked(st, branch, 0),
                 <<MsgEv("information", "Success",
                         <<"Remote '">> \o remote_name \o <<"' added successfully!">>,
                         "Ok", 0)>>),
             repo_path, inp)

ar_added(st, res, remote_name, repo_path, inp) ==
    IF ~res.ok
    THEN Log(Ran(st, res, 0),
             <<MsgEv("critical", "Failed",
                     <<"Failed to add remote:\n">> \o res.msg, "Ok", 0)>>)
    ELSE IF inp.set_upstream
    THEN ar_branch(Ran(st, res, 0),
                   get_current_branch(repo_path, res.repo, QAt(inp.level, 2)),
                   remote_name, repo_path, inp)
    ELSE show_add_remote_dialog_accepted(
             Log(Ran(st, res, 0),
                 <<MsgEv("information", "Success",
                         <<"Remote '">> \o remote_name \o <<"' added successfully!">>,
                         "Ok", 0)>>),
             repo_path, inp)

\* GitRemoteDialog.add_remote, and show_add_remote_dialog after it accepts.
GitRemoteDialog_add_remote(st, repo_path, inp) ==
    IF Strip(inp.name) = EmptyStr
    THEN Log(st, <<MsgEv("warning", "Missing Name",
                         <<"Please enter a remote name.">>, "Ok", 0)>>)
    ELSE IF Strip(inp.url) = EmptyStr
    THEN Log(st, <<MsgEv("warning", "Missing URL",
                         <<"Please enter a remote URL.">>, "Ok", 0)>>)
    ELSE ar_added(st, add_remote(repo_path, Strip(inp.name), Strip(inp.url),
                                 st.repo, inp.oAdd),
                  Strip(inp.name), repo_path, inp)

RDlgAdd ==
    /\ dlg.mode = "remote"
    /\ \E inp \in RemoteInputs :
          \E st \in {GitRemoteDialog_add_remote(Start, dlg.path, inp)} :
             /\ Finish(st)
             /\ dlg' = IF Closed(st.tr)
                       THEN [dlg EXCEPT !.mode = "commit",
                                        !.push_en = @ \/ GitOk(st.tr, "get-url")]
                       ELSE dlg
    /\ UNCHANGED <<current_path, history, ret>>

\* Cancel: exec() returns Rejected and show_add_remote_dialog does nothing.
RDlgCancel ==
    /\ dlg.mode = "remote"
    /\ dlg' = [dlg EXCEPT !.mode = "commit"]
    /\ trace' = <<CloseEv("reject")>>
    /\ UNCHANGED <<repo, current_path, history, ui, ret>>

Next ==
    \/ BreadcrumbClicked
    \/ GoBack
    \/ GoHome
    \/ DoubleClick
    \/ SidebarNavigate
    \/ PathBarEntered
    \/ SelectBranch
    \/ CreateNewBranch
    \/ RenameCurrentBranch
    \/ GitPull
    \/ GitPush
    \/ GitPullForPath
    \/ GitPushForPath
    \/ ShowGitCommitDialog
    \/ ShowGitCommitForPath
    \/ DlgCommit
    \/ DlgCancel
    \/ DlgOpenRemote
    \/ RDlgAdd
    \/ RDlgCancel

Spec == Init /\ [][Next]_vars

\* ------------------------------------------- GitManager called on its own
\* The static helpers are also a plain API: under SpecGitManager they are
\* called one after the other with any path and any names, the window staying
\* as constructed. ret keeps the call, the branch the repository was on when
\* it was made (head, '' when detached) and the value returned.
Returns(fn, path, add_all, old_name, new_name, res) ==
    [fn |-> fn, path |-> path, add_all |-> add_all, old_name |-> old_name,
     new_name |-> new_name, head |-> repo.head, ok |-> res.ok, msg |-> res.msg]

CallDone(fn, path, add_all, old_name, new_name, res) ==
    /\ repo' = res.repo
    /\ trace' = res.log
    /\ ret' = Returns(fn, path, add_all, old_name, new_name, res)
    /\ UNCHANGED <<current_path, history, ui, dlg>>

\* The paths the calls are made with: the repository, a directory inside it
\* and a path that is no directory.
CallPaths == {"proj", "sub", "gone"}

\* The branch names the calls are made with.
CallNames == {B_main, B_dev}

\* The outcomes of the invocations of a call with two or three of them: a
\* later invocation has an outcome only when the earlier ones let it run.
TwoOutcomes == {<<a, "ok">> : a \in Outcomes} \cup {<<"ok", b>> : b \in Outcomes}

ThreeOutcomes ==
    {<<a, o[1], o[2]>> : a \in Outcomes, o \in TwoOutcomes}

Call_commit_changes ==
    \E path \in CallPaths, add_all \in BOOLEAN, o \in TwoOutcomes :
        \E res \in {commit_changes(path, <<"fix">>, add_all, repo, o[1], o[2])} :
            CallDone("commit_changes", path, add_all, EmptyStr, EmptyStr, res)

Call_rename_branch ==
    \E path \in CallPaths, old_name \in CallNames, new_name \in CallNames, o \in ThreeOutcomes :
        \E res \in {rename_branch(path, old_name, new_name, repo, o[1], o[2], o[3])} :
            CallDone("rename_branch", path, FALSE, old_name, new_name, res)

Call_checkout_branch ==
    \E path \in CallPaths, branch_name \in CallNames, o \in Outcomes :
        \E res \in {checkout_branch(path, branch_name, repo, o)} :
            CallDone("checkout_branch", path, FALSE, EmptyStr, branch_name, res)

Call_create_branch ==
    \E path \in CallPaths, branch_name \in CallNames, o \in Outcomes :
        \E res \in {create_branch(path, branch_name, repo, o)} :
            CallDone("create_branch", path, FALSE, EmptyStr, branch_name, res)

InitGitManager ==
    /\ repo \in InitRepos
    /\ current_path = HomePath
    /\ history = <<>>
    /\ ui = InitUi0
    /\ dlg = NoDialog
    /\ trace = <<>>
    /\ ret = [fn |-> "none"]

NextGitManager ==
    \/ Call_commit_changes
    \/ Call_rename_branch
    \/ Call_checkout_branch
    \/ Call_create_branch

SpecGitManager == InitGitManager /\ [][NextGitManager]_vars

\* --------------------------------------------- one call on any repository
\* Under SpecApi one helper of GitManager is called once, on a repository as
\* it may be found on disk, and ret keeps the call, the repository before it
\* (was) and what it returned.

\* git config --global <key>: prints the value, or exits 1 when it is unset.
GitConfig(value, o) ==
    IF o = "exc"
    THEN [exc |-> TRUE, rc |-> 1, stdout |-> <<>>, stderr |-> <<>>]
    ELSE IF o = "err" \/ value = EmptyStr
    THEN [exc |-> FALSE, rc |-> 1, stdout |-> <<>>, stderr |-> <<>>]
    ELSE [exc |-> FALSE, rc |-> 0, stdout |-> value \o <<"\n">>, stderr |-> <<>>]

\* The user's global configuration: each of the two values unset, set, or
\* set to blanks; the name may be set with a blank before it.
GitConfigs ==
    {[name |-> n, email |-> e] :
        n \in {EmptyStr, <<"Ann">>, <<" ">>, <<" ", "Ann">>},
        e \in {EmptyStr, <<"ann@host">>, <<" ">>}}

\* is_github_authenticated testing what git printed before trimming it.
is_github_authenticated_of_untrimmed(gn, ge) ==
    [val |-> IF ~gn.exc /\ ~ge.exc /\ Truthy(gn.stdout) /\ Truthy(ge.stdout)
             THEN <<TRUE, Strip(gn.stdout), Strip(ge.stdout)>>
             ELSE <<FALSE, None, None>>,
     log |-> IF gn.exc
             THEN <<GitEv("config", <<"user.name">>, "global", 2, gn)>>
             ELSE <<GitEv("config", <<"user.name">>, "global", 2, gn),
                    GitEv("config", <<"user.email">>, "global", 2, ge)>>]

\* is_github_authenticated after its two invocations (the second is not made
\* when the first raised); the exit codes are not looked at.
is_github_authenticated_of(gn, ge) ==
    [val |-> IF ~gn.exc /\ ~ge.exc /\ Truthy(Strip(gn.stdout)) /\ Truthy(Strip(ge.stdout))
             THEN <<TRUE, Strip(gn.stdout), Strip(ge.stdout)>>
             ELSE <<FALSE, None, None>>,
     log |-> IF gn.exc
             THEN <<GitEv("config", <<"user.name">>, "global", 2, gn)>>
             ELSE <<GitEv("config", <<"user.name">>, "global", 2, gn),
                    GitEv("config", <<"user.email">>, "global", 2, ge)>>]

is_github_authenticated(cfg, oName, oEmail) ==
    is_github_authenticated_of(GitConfig(cfg.name, oName), GitConfig(cfg.email, oEmail))

\* The working trees of the repositories: clean, an untracked file, a file
\* modified and not staged, a file modified and staged.
WorkTrees == {<<>>, << <<"?", "?">> >>, << <<" ", "M">> >>, << <<"M", " ">> >>}

\* A repository git can be in: HEAD on a branch (unborn while there is no
\* commit) or detached; an upstream is a remote-tracking branch of a local
\* one; origin/HEAD comes with a clone. origin may be absent while
\* remote-tracking branches exist (a remote taken out of the configuration by
\* hand leaves its refs behind).
WellFormed(r) ==
    /\ r.head = EmptyStr => r.locals /= {}
    /\ r.head /= EmptyStr => (r.head \in r.locals \/ r.locals = {})
    /\ r.upstream \subseteq (r.locals \cap r.remotes)
    /\ r.upstream /= {} => r.origin
    /\ r.ohead => (r.origin /\ B_main \in r.remotes)
    /\ r.locals = {} => (r.remotes = {} /\ r.wt /= <<>>)

ApiRepos ==
    {r \in [head : CallNames \cup {EmptyStr}, locals : SUBSET CallNames,
            remotes : SUBSET CallNames, upstream : SUBSET CallNames,
            origin : BOOLEAN, ohead : BOOLEAN, wt : WorkTrees] : WellFormed(r)}

\* No call was made yet.
NotCalled == ret.fn = "none"

\* A query returned q.
Answered(fn, path, q) ==
    /\ ret' = [fn |-> fn, path |-> path, was |-> repo, val |-> q.val]
    /\ trace' = q.log
    /\ UNCHANGED <<repo, current_path, history, ui, dlg>>

\* A mutation returned res.
Mutated(fn, path, add_all, old_name, new_name, res) ==
    /\ ret' = [fn |-> fn, path |-> path, add_all |-> add_all, old_name |-> old_name,
               new_name |-> new_name, was |-> repo, ok |-> res.ok, msg |-> res.msg]
    /\ trace' = res.log
    /\ repo' = res.repo
    /\ UNCHANGED <<current_path, history, ui, dlg>>

Api_is_git_repo ==
    /\ NotCalled
    /\ \E path \in GitPaths :
          Answered("is_git_repo", path, [val |-> is_git_repo(path), log |-> <<>>])

Api_is_github_authenticated ==
    /\ NotCalled
    /\ \E cfg \in GitConfigs, o \in TwoOutcomes :
          \E q \in {is_github_authenticated(cfg, o[1], o[2])} :
              /\ ret' = [fn |-> "is_github_authenticated", path |-> "global",
                         was |-> repo, val |-> q.val, cfg |-> cfg]
              /\ trace' = q.log
              /\ UNCHANGED <<repo, current_path, history, ui, dlg>>

Api_get_repo_status ==
    /\ NotCalled
    /\ \E path \in GitPaths, o \in Outcomes :
          \E q \in {get_repo_status(path, repo, o)} :
              Answered("get_repo_status", path, q)

Api_get_current_branch ==
    /\ NotCalled
    /\ \E path \in GitPaths, o \in Outcomes :
          \E q \in {get_current_branch(path, repo, o)} :
              Answered("get_current_branch", path, q)

Api_get_remote_url ==
    /\ NotCalled
    /\ \E path \in GitPaths, o \in Outcomes :
          \E q \in {get_remote_url(path, repo, o)} :
              Answered("get_remote_url", path, q)

Api_has_upstream_branch ==
    /\ NotCalled
    /\ \E path \in GitPaths, o \in Outcomes :
          \E q \in {has_upstream_branch(path, repo, o)} :
              Answered("has_upstream_branch", path, q)

Api_get_all_branches ==
    /\ NotCalled
    /\ \E path \in GitPaths, o \in Outcomes :
          \E q \in {get_all_branches(path, repo, o)} :
              Answered("get_all_branches", path, q)

Api_add_remote ==
    /\ NotCalled
    /\ \E path \in CallPaths, o \in Outcomes :
          \E res \in {add_remote(path, <<"origin">>, OriginUrl, repo, o)} :
              Mutated("add_remote", path, FALSE, EmptyStr, <<"origin">>, res)

Api_set_upstream ==
    /\ NotCalled
    /\ \E path \in CallPaths, branch_name \in CallNames, o \in Outcomes :
          \E res \in {set_upstream(path, <<"origin">>, branch_name, repo, o)} :
              Mutated("set_upstream", path, FALSE, EmptyStr, branch_name, res)

Api_push_set_upstream ==
    /\ NotCalled
    /\ \E path \in CallPaths, branch_name \in CallNames, o \in Outcomes :
          \E res \in {push_set_upstream(path, <<"origin">>, branch_name, repo, o)} :
              Mutated("push_set_upstream", path, FALSE, EmptyStr, branch_name, res)

Api_commit_changes ==
    /\ NotCalled
    /\ \E path \in CallPaths, add_all \in BOOLEAN, o \in TwoOutcomes :
          \E res \in {commit_changes(path, <<"fix">>, add_all, repo, o[1], o[2])} :
              Mutated("commit_changes", path, add_all, EmptyStr, EmptyStr, res)

Api_push_changes ==
    /\ NotCalled
    /\ \E path \in CallPaths, o \in Outcomes :
          \E res \in {push_changes(path, repo, o)} :
              Mutated("push_changes", path, FALSE, EmptyStr, EmptyStr, res)

Api_pull_changes ==
    /\ NotCalled
    /\ \E path \in CallPaths, o \in Outcomes :
          \E res \in {pull_changes(path, repo, o)} :
              Mutated("pull_changes", path, FALSE, EmptyStr, EmptyStr, res)

Api_checkout_branch ==
    /\ NotCalled
    /\ \E path \in CallPaths, branch_name \in CallNames, o \in Outcomes :
          \E res \in {checkout_branch(path, branch_name, repo, o)} :
              Mutated("checkout_branch", path, FALSE, EmptyStr, branch_name, res)

Api_create_branch ==
    /\ NotCalled
    /\ \E path \in CallPaths, branch_name \in Names, o \in Outcomes :
          \E res \in {create_branch(path, branch_name, repo, o)} :
              Mutated("create_branch", path, FALSE, EmptyStr, branch_name, res)

Api_rename_branch ==
    /\ NotCalled
    /\ \E path \in CallPaths, old_name \in CallNames, new_name \in Names,
          o \in ThreeOutcomes :
          \E res \in {rename_branch(path, old_name, new_name, repo, o[1], o[2], o[3])} :
              Mutated("rename_branch", path, FALSE, old_name, new_name, res)

InitApi ==
    /\ repo \in ApiRepos
    /\ current_path = HomePath
    /\ history = <<>>
    /\ ui = InitUi0
    /\ dlg = NoDialog
    /\ trace = <<>>
    /\ ret = [fn |-> "none"]

NextApi ==
    \/ Api_is_git_repo
    \/ Api_is_github_authenticated
    \/ Api_get_repo_status
    \/ Api_get_current_branch
    \/ Api_get_remote_url
    \/ Api_has_upstream_branch
    \/ Api_get_all_branches
    \/ Api_add_remote
    \/ Api_set_upstream
    \/ Api_push_set_upstream
    \/ Api_commit_changes
    \/ Api_push_changes
    \/ Api_pull_changes
    \/ Api_checkout_branch
    \/ Api_create_branch
    \/ Api_rename_branch

SpecApi == InitApi /\ [][NextApi]_vars

\* ------------------------------------------------ parsing what git prints
\* Under SpecParsing get_repo_status and get_all_branches are given an output
\* of their command (exit code 0) and ret keeps the output and the value
\* returned.

\* The two status letters a line of `git status --porcelain` may start with:
\* modified, added, untracked and deleted entries, a rename, an intent-to-add
\* entry, an entry modified in the index and in the working tree.
StatusCodes ==
    {<<" ", "M">>, <<"M", " ">>, <<"A", " ">>, <<"?", "?">>, <<" ", "D">>,
     <<"D", " ">>, <<"R", " ">>, <<" ", "A">>, <<"M", "M">>}

\* The outputs of `git status --porcelain`, each as the codes of its lines.
StatusOutputs == UNION {[1..n -> StatusCodes] : n \in 0..MaxLines}

\* The text of an output: one line 'XY name' per code.
StatusText(codes) == JoinLines([i \in 1..Len(codes) |-> codes[i] \o <<" ", "f">>])

\* What `git branch -a` lists for a remote that is not called origin.
OtherRemoteLines ==
    << <<" ", " ", "remotes/upstream/", "HEAD", " ", "->", " ", "upstream/main">>,
       <<" ", " ", "remotes/upstream/", "main">> >>

\* The listings of `git branch -a`: those of the repositories, with or without
\* a second remote.
BranchListings ==
    {[r |-> r, other |-> o] :
        r \in {x \in ApiRepos : x.wt = << <<"?", "?">> >> /\ x.upstream = {}},
        o \in BOOLEAN}

ListingText(l) ==
    JoinLines(BranchLines(l.r) \o (IF l.other THEN OtherRemoteLines ELSE <<>>))

\* subprocess.run returned with exit code 0 and this stdout.
Printed(text) ==
    [exc |-> FALSE, rc |-> 0, stdout |-> text, stderr |-> <<>>, repo |-> repo]

Parse_get_repo_status ==
    /\ ret.fn = "status_output"
    /\ \E q \in {get_repo_status_of(Printed(StatusText(ret.codes)), "proj")} :
          /\ ret' = [fn |-> "get_repo_status_of", codes |-> ret.codes, val |-> q.val]
          /\ trace' = q.log
    /\ UNCHANGED <<repo, current_path, history, ui, dlg>>

Parse_get_all_branches ==
    /\ ret.fn = "branch_listing"
    /\ \E q \in {get_all_branches_of(Printed(ListingText(ret.listing)), "proj")} :
          /\ ret' = [fn |-> "get_all_branches_of", listing |-> ret.listing, val |-> q.val]
          /\ trace' = q.log
    /\ UNCHANGED <<repo, current_path, history, ui, dlg>>

InitParsing ==
    /\ repo \in {r \in InitRepos : r.locals = {}}
    /\ current_path = HomePath
    /\ history = <<>>
    /\ ui = InitUi0
    /\ dlg = NoDialog
    /\ trace = <<>>
    /\ ret \in {[fn |-> "status_output", codes |-> c] : c \in StatusOutputs}
               \cup {[fn |-> "branch_listing", listing |-> l] : l \in BranchListings}

NextParsing ==
    \/ Parse_get_repo_status
    \/ Parse_get_all_branches

SpecParsing == InitParsing /\ [][NextParsing]_vars

\* ------------------------------------- the remote dialog on any repository
\* Under SpecRemoteDialog the Add Remote dialog has been opened from the
\* commit dialog of the context menu (the window still on the home directory)
\* on a repository without a remote, and is used once.
InitRemoteDialog ==
    /\ repo \in {r \in ApiRepos : ~r.origin}
    /\ current_path = HomePath
    /\ history = <<>>
    /\ \E st \in {Constructed(repo)} : ui = st.ui
    /\ dlg = [mode |-> "remote", path |-> "proj", push_en |-> FALSE, add_btn |-> TRUE]
    /\ trace = <<OpenEv("GitRemoteDialog", "proj")>>
    /\ ret = [fn |-> "none"]

NextRemoteDialog ==
    \/ RDlgAdd
    \/ RDlgCancel

SpecRemoteDialog == InitRemoteDialog /\ [][NextRemoteDialog]_vars

\* --------------------------------------- pull and push, process by process
\* Under SpecProcess git_pull and git_push run statement by statement in the
\* window showing the repository. ret holds the handler's position (pc), the
\* git child processes alive (running) and what the mutation returned.
PullPush == {"pull", "push"}

MutationProc(what) == [kind |-> "mutation", cmd |-> what]
QueryProc == [kind |-> "query", cmd |-> "refresh"]

At(fn, pc, running, ok, msg) ==
    [fn |-> fn, pc |-> pc, running |-> running, ok |-> ok, msg |-> msg]

\* subprocess.run whose child is left alive when the timeout expires.
run_timed_out_leaving_child(running, p) == running

\* subprocess.run(..., timeout=30) when the timeout expires: the child is
\* killed and waited for before TimeoutExpired is raised.
run_timed_out(running, p) == running \ {p}

PullOrPushCall(what, path, r, o) ==
    IF what = "pull" THEN pull_changes(path, r, o) ELSE push_changes(path, r, o)

\* The guard and QMessageBox.question of git_pull / git_push.
P_Ask ==
    /\ ret.pc \in {"idle", "done"}
    /\ is_git_repo(current_path)
    /\ \E what \in PullPush, reply \in Replies :
          /\ trace' = <<MsgEv("question", IF what = "pull" THEN "Git Pull" ELSE "Git Push",
                              <<what, " ", current_path>>, reply, 0)>>
          /\ ret' = At(what, IF reply = "Yes" THEN "confirmed" ELSE "done",
                       ret.running, FALSE, <<>>)
    /\ UNCHANGED <<repo, current_path, history, ui, dlg>>

\* subprocess.run starts the child.
P_Launch ==
    /\ ret.pc = "confirmed"
    /\ ret' = [ret EXCEPT !.pc = "waiting", !.running = @ \cup {MutationProc(ret.fn)}]
    /\ UNCHANGED <<repo, current_path, history, ui, dlg, trace>>

\* The child runs to its end; subprocess.run returns when it is waiting for it.
P_Exit ==
    /\ \E p \in ret.running, m \in UiOutcomes :
          /\ p.kind = "mutation"
          /\ \E res \in {PullOrPushCall(p.cmd, current_path, repo, m)} :
                /\ repo' = res.repo
                /\ IF ret.pc = "waiting"
                   THEN /\ trace' = trace \o res.log
                        /\ ret' = At(ret.fn, "returned", ret.running \ {p}, res.ok, res.msg)
                   ELSE /\ trace' = trace
                        /\ ret' = [ret EXCEPT !.running = @ \ {p}]
    /\ UNCHANGED <<current_path, history, ui, dlg>>

\* The timeout expires first: except Exception returns (False, str(e)).
P_Timeout ==
    /\ ret.pc = "waiting"
    /\ \E res \in {PullOrPushCall(ret.fn, current_path, repo, "exc")} :
          /\ trace' = trace \o res.log
          /\ ret' = At(ret.fn, "returned", run_timed_out(ret.running, MutationProc(ret.fn)),
                       res.ok, res.msg)
    /\ UNCHANGED <<repo, current_path, history, ui, dlg>>

\* QMessageBox.information / critical with the result.
P_Message ==
    /\ ret.pc = "returned"
    /\ trace' = Append(trace,
                   IF ret.ok
                   THEN MsgEv("information", "Success",
                              <<"Changes ", ret.fn, "ed successfully!">>, "Ok", 0)
                   ELSE MsgEv("critical",
                              IF ret.fn = "pull" THEN "Pull Failed" ELSE "Push Failed",
                              <<"Failed to ", ret.fn, " changes:\n">> \o ret.msg, "Ok", 0))
    /\ ret' = [ret EXCEPT !.pc = "refresh"]
    /\ UNCHANGED <<repo, current_path, history, ui, dlg>>

\* update_git_status_display starts its queries.
P_RefreshStart ==
    /\ ret.pc = "refresh"
    /\ ret' = [ret EXCEPT !.pc = "querying", !.running = @ \cup {QueryProc}]
    /\ UNCHANGED <<repo, current_path, history, ui, dlg, trace>>

\* The queries have answered and the display is set from them.
P_RefreshEnd ==
    /\ ret.pc = "querying"
    /\ \E level \in Levels :
          \E st \in {update_git_status_display([repo |-> repo, ui |-> ui, tr |-> trace],
                                               current_path, Inp(level, "No", "ok"), 0)} :
              Finish(st)
    /\ ret' = [ret EXCEPT !.pc = "done", !.running = @ \ {QueryProc}]
    /\ UNCHANGED <<current_path, history, dlg>>

InitProcess ==
    /\ repo \in ApiRepos
    /\ current_path = "proj"
    /\ history = <<HomePath>>
    /\ dlg = NoDialog
    /\ \E c \in {Constructed(repo)} :
          \E st \in {update_path_bar([repo |-> repo, ui |-> c.ui, tr |-> <<>>], "proj",
                                     Inp("ok", "No", "ok"))} :
              ui = st.ui /\ trace = st.tr
    /\ ret = At("none", "idle", {}, FALSE, <<>>)

NextProcess ==
    \/ P_Ask
    \/ P_Launch
    \/ P_Exit
    \/ P_Timeout
    \/ P_Message
    \/ P_RefreshStart
    \/ P_RefreshEnd

SpecProcess == InitProcess /\ [][NextProcess]_vars

\* ------------------------------------------------------- reading a trace
IsGit(e, names) == e.k = "git" /\ e.name \in names
IsMsg(e, title) == e.k = "msg" /\ e.title = title

GitRuns(tr, names) == {i \in 1..Len(tr) : IsGit(tr[i], names)}
GitFails(tr, names) == {i \in GitRuns(tr, names) : tr[i].res /= "ok"}
GitSucceeds(tr, names) == {i \in GitRuns(tr, names) : tr[i].res = "ok"}
Msgs(tr, title) == {i \in 1..Len(tr) : IsMsg(tr[i], title)}
Refreshes(tr) == {i \in 1..Len(tr) : tr[i].k = "refresh"}

\* The trace of an attempt of GitCommitDialog.commit that reached commit_changes.
CommitAttempt(tr) == GitRuns(tr, {"add", "commit"}) /= {}
\* commit_changes returned success / failure in it.
CommitSucceeded(tr) == GitSucceeds(tr, {"commit"}) /= {}
CommitFailed(tr) == CommitAttempt(tr) /\ ~CommitSucceeded(tr)

Pushes == {"push", "push-u"}
\* The commands of a commit attempt that leave a commit alone: staging, the
\* commit, the queries and the pushes.
Harmless ==
    {"add", "commit", "push", "push-u", "rev-parse-upstream", "show-current",
     "status", "branch-a"}

\* C1. In the commit dialog, whenever commit_changes succeeded and the push
\* after it (plain or with upstream-set) failed, nothing that undoes the
\* commit was run and a message shown to the user says that the commit
\* succeeded and the push failed.
C1_PartialSuccessReported ==
    (CommitSucceeded(trace) /\ GitFails(trace, Pushes) /= {}) =>
        /\ \A i \in 1..Len(trace) : trace[i].k = "git" => trace[i].name \in Harmless
        /\ \E i \in 1..Len(trace) :
              /\ trace[i].k = "msg"
              /\ StartsWith(trace[i].text, <<"Commit succeeded but push failed:\n">>)

\* C2. In the commit dialog with push requested after a successful commit:
\* when the upstream check found an upstream exactly one plain push is run
\* and no upstream-set push; when it found none the user is asked, the push is
\* made with push_set_upstream to origin/<branch>, the branch the question
\* named, and no plain push is run.
C2_PushFollowsUpstream ==
    (CommitSucceeded(trace) /\ GitRuns(trace, {"rev-parse-upstream"}) /= {}) =>
        IF GitSucceeds(trace, {"rev-parse-upstream"}) /= {}
        THEN /\ Cardinality(GitRuns(trace, {"push"})) = 1
             /\ GitRuns(trace, {"push-u"}) = {}
        ELSE /\ Msgs(trace, "Set Upstream Branch") /= {}
             /\ GitRuns(trace, {"push"}) = {}
             /\ Cardinality(GitRuns(trace, {"push-u"})) = 1
             /\ \A i \in GitRuns(trace, {"push-u"}), j \in Msgs(trace, "Set Upstream Branch") :
                   /\ trace[i].arg[1] = "origin"
                   /\ trace[j].text = <<"The branch '", trace[i].arg[3],
                                        "' has no upstream branch.">>

\* C3. In the commit dialog, when commit_changes fails, the attempt runs no
\* upstream check and no push and the dialog is not accepted (it stays open);
\* an upstream check or a push of an attempt comes only after the successful
\* commit of that attempt.
C3_FailedCommitEndsAttempt ==
    /\ CommitFailed(trace) =>
          /\ GitRuns(trace, Pushes \cup {"rev-parse-upstream"}) = {}
          /\ ~Closed(trace)
          /\ dlg.mode = "commit"
    /\ CommitAttempt(trace) =>
          \A i \in GitRuns(trace, Pushes \cup {"rev-parse-upstream"}) :
             \E j \in GitSucceeds(trace, {"commit"}) : j < i

\* A commit attempt whose commit step failed.
C3_Witness ==
    /\ dlg.mode = "commit"
    /\ GitFails(trace, {"commit"}) /= {}
    /\ Msgs(trace, "Commit Failed") /= {}

\* The mutations the user starts from the window and the commit dialog.
UiMutations == {"checkout", "checkout-b", "branch-m", "pull", "push", "push-u", "commit"}

\* C4. After every mutation attempt started from the UI (checkout, create,
\* rename, pull, push, commit through the dialog), whether it succeeded or
\* failed, update_git_status_display is invoked before the handler returns.
C4_RefreshAfterEveryMutation ==
    GitRuns(trace, UiMutations) /= {} =>
        \E i \in Refreshes(trace) : \A j \in GitRuns(trace, UiMutations) : j < i

\* C5. Whenever no handler is running and current_path is a repository with a
\* non-empty branch list, the entry selected in the branch selector is the
\* branch the repository is on, as get_current_branch reports it.
C5_NoStaleSelection ==
    (/\ Idle
     /\ is_git_repo(current_path)
     /\ get_all_branches(current_path, repo, "ok").val /= <<>>) =>
        ComboText(ui) = get_current_branch(current_path, repo, "ok").val

\* C6. When the user selected another branch while the repository was on
\* branch A and then answered No or the checkout failed, the selector shows A
\* afterwards, the repository is still on A, and the revert opened no further
\* confirmation and ran no further checkout. (A rejected or failed switch
\* leaves the repository alone, so A is the branch it is on afterwards.)
C6_RejectedSwitchReverts ==
    (/\ Msgs(trace, "Switch Branch") /= {}
     /\ GitSucceeds(trace, {"checkout"}) = {}
     /\ repo.head /= EmptyStr) =>
        /\ ComboText(ui) = repo.head
        /\ Cardinality(Msgs(trace, "Switch Branch")) = 1
        /\ Cardinality(GitRuns(trace, {"checkout"})) <= 1

\* C7. During a refresh (update_git_status_display, update_branch_selector)
\* the programmatic clearing, filling and selecting never opens the 'Switch
\* Branch' confirmation and never runs a checkout: every such event of a
\* handler happens outside all refreshes (depth 0).
C7_RefreshNeverSwitches ==
    \A i \in 1..Len(trace) :
        (IsMsg(trace[i], "Switch Branch") \/ IsGit(trace[i], {"checkout"})) =>
            trace[i].d = 0

\* A refresh that filled the selector and moved its selection off the first
\* entry.
C7_Witness ==
    /\ Refreshes(trace) /= {}
    /\ Len(ui.items) = 2
    /\ ui.idx = 2

\* What the display shows when derived for path from repository r: the
\* toolbar actions, the label and the branch controls.
DisplayFreshFor(u, r, path, tr) ==
    /\ u.derived_for = path
    /\ \E i \in Refreshes(tr) : tr[i].path = path
    /\ \A i \in 1..Len(tr) : tr[i].k = "git" => tr[i].path = path
    /\ u.commit_en = is_git_repo(path)
    /\ u.pull_en = is_git_repo(path)
    /\ u.push_en = is_git_repo(path)
    /\ IF is_git_repo(path)
       THEN /\ GitRuns(tr, {"show-current"}) /= {}
            /\ GitRuns(tr, {"status"}) /= {}
            /\ GitRuns(tr, {"branch-a"}) /= {}
            /\ u.label.repo
            /\ u.label.branch \in {get_current_branch(path, r, "ok").val, None}
            /\ u.label.status \in {get_repo_status(path, r, "ok").val, NoStatus}
            /\ u.items = get_all_branches(path, r, "ok").val
            /\ u.combo_en = (u.items /= <<>>)
       ELSE /\ u.label = NoRepoLabel
            /\ u.items = <<>>
            /\ ~u.combo_en /\ ~u.new_en /\ ~u.rename_en

\* C8. At initial load and after every navigation that changes current_path
\* the status display (label, selector, enablement) has been derived anew,
\* from queries made for the new current_path, before the handler returns.
C8_NavigationRederives ==
    /\ DisplayFreshFor(ui, repo, current_path, trace)
    /\ [][current_path' /= current_path =>
             DisplayFreshFor(ui', repo', current_path', trace')]_vars

\* The window right after a navigation from home into the repository.
C8_Witness ==
    /\ current_path = "proj"
    /\ history = <<HomePath>>
    /\ trace /= <<>> /\ trace[1].k = "refresh" /\ trace[1].path = "proj"
    /\ ui.derived_for = "proj"
    /\ ui.items /= <<>>
    /\ ui.label.branch = repo.head

StagingMark == <<"Failed to stage files: ">>

\* C9. commit_changes(path, message, add_all): with add_all the staging
\* command runs first, and when it exits non-zero the commit command is not
\* run and the failure returned is marked as a staging failure, which no
\* failure of the commit step is; without add_all no staging command runs.
C9_StagingBeforeCommit ==
    ret.fn = "commit_changes" =>
        IF ret.add_all
        THEN /\ IsGit(trace[1], {"add"})
             /\ trace[1].res = "fail" =>
                   /\ GitRuns(trace, {"commit"}) = {}
                   /\ ~ret.ok
                   /\ StartsWith(ret.msg, StagingMark)
             /\ GitFails(trace, {"commit"}) /= {} =>
                   ~ret.ok /\ ~StartsWith(ret.msg, StagingMark)
        ELSE /\ GitRuns(trace, {"add"}) = {}
             /\ ~ret.ok => ~StartsWith(ret.msg, StagingMark)

\* A call with add_all whose staging command exited non-zero.
C9_Witness ==
    /\ ret.fn = "commit_changes"
    /\ ret.add_all
    /\ trace[1].res = "fail"
    /\ ~ret.ok

\* What a checkout that exits non-zero may print on stderr.
CheckoutDiagnostics ==
    {EnvErr \o <<"\n">>, RefusalStderr("checkout"),
     <<"fatal: ", "not a git repository", "\n">>}

\* rename_branch ran the checkout of old_name first; when that exited
\* non-zero it returned the failure with the checkout's diagnostic and did not
\* run `git branch -m`.
CheckoutRanFirst ==
    /\ Len(trace) >= 2
    /\ IsGit(trace[2], {"checkout"})
    /\ trace[2].arg = ret.old_name
    /\ \A i \in GitRuns(trace, {"branch-m"}) : i > 2
    /\ trace[2].res = "fail" =>
          /\ ~ret.ok
          /\ \E diag \in CheckoutDiagnostics :
                ret.msg = <<"Failed to checkout branch: ">> \o diag
          /\ GitRuns(trace, {"branch-m"}) = {}

C11_RenamedBranchIsCurrent ==
    (ret.fn = "rename_branch" /\ ret.ok) =>
        /\ get_current_branch(ret.path, repo, "ok").val = ret.new_name
        /\ ret.was.head /= ret.old_name =>
              /\ repo.head = ret.new_name
              /\ repo.head /= ret.was.head
              /\ ret.old_name \notin repo.locals
              /\ ret.was.head \in ret.was.locals => ret.was.head \in repo.locals

\* A successful rename of dev to trunk made while the repository was on main.
C11_Witness ==
    /\ ret.fn = "rename_branch"
    /\ ret.ok
    /\ ret.was.head = B_main
    /\ ret.was.locals = {B_main, B_dev}
    /\ ret.old_name = B_dev
    /\ ret.new_name = B_trunk
    /\ repo.head = B_trunk
    /\ repo.locals = {B_main, B_trunk}


\* The mutation operations of GitManager.
MutationFns ==
    {"add_remote", "set_upstream", "push_set_upstream", "commit_changes",
     "push_changes", "pull_changes", "checkout_branch", "create_branch",
     "rename_branch"}

\* The invocations of a trace that did not exit 0 (non-zero exit, timeout or
\* launch failure).
Failures(tr) == {i \in 1..Len(tr) : tr[i].k = "git" /\ tr[i].res /= "ok"}

\* The diagnostic of a failed invocation: what git printed to explain itself
\* (stderr, or stdout when it left stderr empty), the exception's text when
\* subprocess.run raised.
DiagnosticOf(e) ==
    IF e.res = "exc" THEN ExcText
    ELSE IF e.stderr /= <<>> THEN e.stderr ELSE e.stdout

\* t occurs in s, verbatim.
Contains(s, t) ==
    \E i \in 0..(Len(s) - Len(t)) : SubSeq(s, i + 1, i + Len(t)) = t

\* C12. A mutation operation returns (True, message) only if every git
\* command it ran exited 0; when a command of it exits non-zero, times out or
\* cannot be launched it returns (False, message), and the message contains
\* the diagnostic of the failing command (the last one it ran) verbatim.
C12_MutationsReportFailure ==
    ret.fn \in MutationFns =>
        /\ ret.ok => Failures(trace) = {}
        /\ Failures(trace) /= {} =>
              /\ ~ret.ok
              /\ Len(trace) \in Failures(trace)
              /\ Contains(ret.msg, DiagnosticOf(trace[Len(trace)]))


\* What a query returns when it has nothing to report: None, False or [].
IsDefault(fn, val) ==
    CASE fn = "is_git_repo" -> val = FALSE
      [] fn = "get_current_branch" -> val = None
      [] fn = "get_repo_status" -> val = NoStatus
      [] fn = "get_remote_url" -> val = None
      [] fn = "has_upstream_branch" -> val = FALSE
      [] fn = "get_all_branches" -> val = <<>>
      [] fn = "is_github_authenticated" -> val = <<FALSE, None, None>>
      [] OTHER -> FALSE

\* The queries that take a path.
PathQueries ==
    {"is_git_repo", "get_current_branch", "get_repo_status", "get_remote_url",
     "has_upstream_branch", "get_all_branches"}

\* C13. For every path that has no .git directory (a path that does not exist
\* included), is_git_repo is False, get_current_branch, get_repo_status and
\* get_remote_url return None, has_upstream_branch returns False and
\* get_all_branches returns an empty list.
C13_NoMarkerNoFacts ==
    (ret.fn \in PathQueries /\ ~HasGitDir(ret.path)) => IsDefault(ret.fn, ret.val)


\* The queries that run git.
GitQueries == (PathQueries \ {"is_git_repo"}) \cup {"is_github_authenticated"}

\* C14. An inspector query whose git invocation exits non-zero, times out or
\* cannot be launched returns its absent/default value (the call returns, it
\* raises nothing); on a detached HEAD get_current_branch returns an empty or
\* absent value.
C14_QueriesDegrade ==
    /\ (ret.fn \in GitQueries /\ Failures(trace) /= {}) => IsDefault(ret.fn, ret.val)
    /\ (ret.fn = "get_current_branch" /\ ret.was.head = EmptyStr) =>
          ret.val \in {EmptyStr, None}

\* get_repo_status on the repository when `git status` timed out.
C14_Witness ==
    /\ ret.fn = "get_repo_status"
    /\ ret.path = "proj"
    /\ trace[1].res = "exc"
    /\ ret.val = NoStatus


\* C15. For every short-status output on which get_repo_status returns a
\* snapshot, 'clean' is true iff the output reported no line at all, and when
\* 'clean' is true the modified, added and deleted counts are all zero.
C15_CleanIffNoLines ==
    ret.fn = "get_repo_status_of" =>
        /\ ~ret.val.none
        /\ ret.val.clean <=> (ret.codes = <<>>)
        /\ ret.val.clean =>
              (ret.val.modified = 0 /\ ret.val.added = 0 /\ ret.val.deleted = 0)

\* The snapshot of an output without lines.
C15_Witness ==
    /\ ret.fn = "get_repo_status_of"
    /\ ret.codes = <<>>
    /\ ret.val.clean

\* The number of lines of an output that begin with one of the prefixes.
LinesWith(codes, prefixes) == Cardinality({i \in 1..Len(codes) : codes[i] \in prefixes})

\* C16. Whatever the lines and their order, get_repo_status counts a line as
\* modified iff it begins with ' M' or 'M ', as added iff it begins with 'A '
\* or '??', as deleted iff it begins with ' D' or 'D '; a line with another
\* prefix ('R ', ' A', 'MM') adds to no count, wherever it stands.
C16_CountsByPrefix ==
    ret.fn = "get_repo_status_of" =>
        /\ ret.val.modified = LinesWith(ret.codes, {<<" ", "M">>, <<"M", " ">>})
        /\ ret.val.added = LinesWith(ret.codes, {<<"A", " ">>, <<"?", "?">>})
        /\ ret.val.deleted = LinesWith(ret.codes, {<<" ", "D">>, <<"D", " ">>})


\* An entry that is the literal HEAD or a HEAD pseudo-ref (remotes/<remote>/HEAD).
IsHeadEntry(b) == "HEAD" \in SeqToSet(b)

NoDuplicates(seq) == \A i, j \in 1..Len(seq) : i /= j => seq[i] /= seq[j]

\* C17. For every output of the branch listing command, the list returned by
\* get_all_branches holds no name twice and no entry that is the literal HEAD
\* or a HEAD pseudo-ref.
C17_NoDuplicateNoHead ==
    ret.fn = "get_all_branches_of" =>
        /\ NoDuplicates(ret.val)
        /\ \A i \in 1..Len(ret.val) : ~IsHeadEntry(ret.val[i])

\* The names of a set of branches in the order git lists them.
Listed(names) == SelectSeq(BranchOrder, LAMBDA b : b \in names)

\* seq without the later occurrences of a name.
RECURSIVE Dedup(_, _)
Dedup(seq, acc) ==
    IF seq = <<>> THEN acc
    ELSE Dedup(Tail(seq), IF Head(seq) \in SeqToSet(acc) THEN acc ELSE Append(acc, Head(seq)))

\* C18. get_all_branches returns the local branch names followed, in listing
\* order, by the names of the origin remote-tracking branches without their
\* 'remotes/origin/' prefix, each name once at its first position; every
\* entry is the name of a local or origin remote-tracking branch.
C18_ExactlyTheBranches ==
    ret.fn = "get_all_branches_of" =>
        /\ ret.val = Dedup(Listed(ret.listing.r.locals) \o Listed(ret.listing.r.remotes), <<>>)
        /\ \A i \in 1..Len(ret.val) :
              ret.val[i] \in ret.listing.r.locals \cup ret.listing.r.remotes


\* C19. On a repository with no remote, when the Add Remote flow ran with the
\* set-upstream option checked and add_remote(P, 'origin', url) and
\* set_upstream(P, 'origin', <current branch>) both succeeded (set_upstream
\* was called and the dialog reported success), has_upstream_branch(P)
\* returns True afterwards.
C19_UpstreamAfterAddRemote ==
    (/\ GitSucceeds(trace, {"remote-add"}) /= {}
     /\ GitRuns(trace, {"set-upstream-to"}) /= {}
     /\ Msgs(trace, "Success") /= {}) =>
        has_upstream_branch(dlg.path, repo, "ok").val

\* The flow on a repository that kept remote-tracking branches of a remote no
\* longer configured: both steps succeeded.
C19_Witness ==
    /\ GitSucceeds(trace, {"remote-add"}) /= {}
    /\ GitSucceeds(trace, {"set-upstream-to"}) /= {}
    /\ Msgs(trace, "Success") /= {}
    /\ repo.origin
    /\ repo.head \in repo.upstream


\* Every invocation of the trace ran to its end: none raised and none failed
\* for a reason outside the repository.
RanToEnd(tr) ==
    \A i \in 1..Len(tr) :
        tr[i].k = "git" => tr[i].res /= "exc" /\ tr[i].stderr /= EnvErr \o <<"\n">>

\* C20. commit_changes(P, msg, add_all=True) on a repository with zero changes,
\* git running to its end, returns either a failure whose message reports that
\* there was nothing to commit, or success with the repository left unchanged.
C20_NothingToCommitReported ==
    (/\ ret.fn = "commit_changes"
     /\ ret.add_all
     /\ is_git_repo(ret.path)
     /\ ret.was.wt = <<>>
     /\ RanToEnd(trace)) =>
        \/ ~ret.ok /\ Contains(ret.msg, <<"nothing to commit, working tree clean">>)
        \/ ret.ok /\ repo = ret.was


\* C21. A status refresh that follows a pull or a push starts only after the
\* mutation's git process has exited, also when the mutation timed out: no
\* refresh query runs while a mutation process is alive, and when the handler
\* is done no process is left and the display shows the repository as the
\* mutation left it.
C21_RefreshAfterProcessExit ==
    /\ QueryProc \in ret.running =>
          \A p \in ret.running : p.kind /= "mutation"
    /\ (ret.pc = "done" /\ Refreshes(trace) /= {}) =>
          /\ ret.running = {}
          /\ DisplayFreshFor(ui, repo, current_path, trace)

\* A pull or push that timed out, followed by its refresh.
C21_Witness ==
    /\ ret.pc = "done"
    /\ \E i \in GitRuns(trace, PullPush) : trace[i].res = "exc"
    /\ Refreshes(trace) /= {}
    /\ ret.running = {}


\* The timeout the tiers give a git command: 2 seconds for a read-only query,
\* 5 for a local mutation, 30 for push and pull.
TierTimeout(cmd) ==
    CASE cmd \in {"status", "show-current", "get-url", "rev-parse-upstream",
                  "branch-a", "config"} -> 2
      [] cmd \in {"add", "commit", "remote-add", "set-upstream-to", "checkout",
                  "checkout-b", "branch-m"} -> 5
      [] cmd \in {"push", "pull", "push-u"} -> 30
      [] OTHER -> 0

\* The call whose last invocation timed out says so: a mutation returns
\* (False, the exception's text), a query its default.
TimeoutReported ==
    IF ret.fn \in MutationFns THEN ~ret.ok /\ ret.msg = ExcText
    ELSE IsDefault(ret.fn, ret.val)

\* C22. Every git invocation carries the timeout of its tier (2 seconds for a
\* read-only query, 5 for a local mutation, 30 for push and pull), and a call
\* ended by an expired timeout reports it.
C22_TimeoutOfTier ==
    ret.fn /= "none" =>
        /\ \A i \in 1..Len(trace) :
              trace[i].k = "git" => trace[i].t = TierTimeout(trace[i].name)
        /\ (trace /= <<>> /\ trace[Len(trace)].res = "exc") => TimeoutReported


\* Both git config invocations ran to their end and exited 0.
IdentityQueried(tr) ==
    Len(tr) = 2 /\ \A i \in 1..2 : tr[i].res = "ok"

\* C23. is_github_authenticated returns (True, name, email) iff both the
\* global user name and the global user e-mail are present and non-empty after
\* trimming, and (False, None, None) in every other case, a failed query
\* included.
C23_AuthenticatedIffBoth ==
    ret.fn = "is_github_authenticated" =>
        ret.val = IF /\ IdentityQueried(trace)
                     /\ Truthy(Strip(ret.cfg.name))
                     /\ Truthy(Strip(ret.cfg.email))
                  THEN <<TRUE, Strip(ret.cfg.name), Strip(ret.cfg.email)>>
                  ELSE <<FALSE, None, None>>

\* A name set with a blank before it and an e-mail: authenticated, trimmed.
C23_Witness ==
    /\ ret.fn = "is_github_authenticated"
    /\ ret.cfg.name = <<" ", "Ann">>
    /\ ret.val = <<TRUE, <<"Ann">>, <<"ann@host">>>>


\* C24. When commit_changes succeeded inside the commit dialog, the step that
\* ends the dialog (the commit handler accepting it, or a Cancel right after a
\* commit handler that left it open) re-derives the main window's status
\* display for current_path.
C24_CommitThenRederived ==
    [][(/\ dlg.mode = "commit"
        /\ dlg'.mode = "none"
        /\ (CommitSucceeded(trace) \/ CommitSucceeded(trace'))) =>
            /\ Refreshes(trace') /= {}
            /\ ui'.derived_for = current_path]_vars


\* C25. At initial load and after every navigation event the Git Commit, Git
\* Pull and Git Push toolbar actions are all enabled when current_path has a
\* .git directory and all disabled otherwise.
C25_ToolbarFollowsPath ==
    /\ ui.commit_en = is_git_repo(current_path)
    /\ ui.pull_en = is_git_repo(current_path)
    /\ ui.push_en = is_git_repo(current_path)

\* The window in the repository, entered from a directory that is none.
C25_Witness ==
    /\ current_path = "proj"
    /\ history /= <<>> /\ ~is_git_repo(history[Len(history)])
    /\ Refreshes(trace) /= {}
    /\ ui.commit_en /\ ui.pull_en /\ ui.push_en


\* C26. After every status refresh the branch selector, the New Branch button
\* and the Rename Branch button are enabled iff current_path is a repository
\* and get_all_branches returned a non-empty list (the list the selector then
\* holds); when current_path is not a repository the selector is empty and the
\* three controls are disabled.
C26_BranchControlsFollowList ==
    Refreshes(trace) /= {} =>
        /\ ui.items = IF is_git_repo(current_path)
                      THEN get_all_branches(current_path, repo, "ok").val ELSE <<>>
        /\ ui.combo_en = (is_git_repo(current_path) /\ ui.items /= <<>>)
        /\ ui.new_en = ui.combo_en
        /\ ui.rename_en = ui.combo_en

\* A refresh in a repository without a commit: no branch, nothing enabled.
C26_Witness ==
    /\ Refreshes(trace) /= {}
    /\ is_git_repo(current_path)
    /\ GitSucceeds(trace, {"branch-a"}) /= {}
    /\ ui.items = <<>>
    /\ ~ui.combo_en /\ ~ui.new_en /\ ~ui.rename_en


\* The title of the confirmation that goes with a command of the main window.
ConfirmationOf(cmd) ==
    CASE cmd = "pull" -> "Git Pull"
      [] cmd = "push" -> "Git Push"
      [] OTHER -> "Switch Branch"

\* The invocations pull_changes, push_changes and checkout_branch made in a
\* handler of the main window: the commit dialog's pushes follow a commit, and
\* rename_branch's own checkout follows its branch query directly.
MainWindowRuns(tr) ==
    {i \in GitRuns(tr, {"pull", "push", "checkout"}) :
        /\ GitRuns(tr, {"commit"}) = {}
        /\ tr[i].name = "checkout" => (i > 1 /\ tr[i - 1].k /= "git")}

\* The invocation at i comes right after its confirmation, answered Yes.
Confirmed(tr, i) ==
    /\ i > 1
    /\ IsMsg(tr[i - 1], ConfirmationOf(tr[i].name))
    /\ tr[i - 1].kind = "question"
    /\ tr[i - 1].reply = "Yes"

\* A confirmation answered No is followed by no mutation.
DeclinedRunsNothing(tr) ==
    (\E i \in 1..Len(tr) :
        /\ tr[i].k = "msg" /\ tr[i].kind = "question" /\ tr[i].reply = "No"
        /\ tr[i].title \in {"Git Pull", "Git Push", "Switch Branch"}) =>
            GitRuns(tr, UiMutations) = {}

\* C27. From the main window, pull_changes, push_changes and checkout_branch
\* are run only after the user answered Yes to the corresponding confirmation
\* in the same handler and only when current_path is a repository; answering
\* No runs no git mutation at all.
C27_ConfirmedInCurrentRepo ==
    /\ \A i \in MainWindowRuns(trace) :
          Confirmed(trace, i) /\ is_git_repo(current_path)
    /\ DeclinedRunsNothing(trace)

\* C27, amended. From the main window, pull_changes, push_changes and
\* checkout_branch are run only after the user answered Yes to the
\* corresponding confirmation in the same handler and only on a path that is
\* a repository (current_path for the toolbar and the selector, the selected
\* entry for the context menu); answering No runs no git mutation at all.
C27_ConfirmedOnARepo ==
    /\ \A i \in MainWindowRuns(trace) :
          Confirmed(trace, i) /\ is_git_repo(trace[i].path)
    /\ DeclinedRunsNothing(trace)

\* A pull from the context menu, confirmed, while the window shows the home
\* directory.
C27_Witness ==
    /\ current_path = HomePath
    /\ \E i \in MainWindowRuns(trace) :
          trace[i].name = "pull" /\ trace[i].path = "proj" /\ Confirmed(trace, i)


\* C28. The commit dialog runs a push (plain or with upstream-set) only if an
\* origin URL was found when the dialog opened or after the Add Remote dialog
\* added one, which is when the push option is enabled: while no origin remote
\* is configured the option is disabled, and a commit from the dialog is not
\* followed by a push.
C28_PushOnlyWithOrigin ==
    /\ [](dlg.push_en => repo.origin)
    /\ []((CommitAttempt(trace) /\ GitRuns(trace, Pushes) /= {}) => repo.origin)
    /\ [][(dlg.mode = "commit" /\ GitRuns(trace', Pushes) /= {}) =>
             (dlg.push_en /\ repo.origin)]_vars

\* A commit followed by a successful push in a repository that had no origin
\* remote when the window opened: the remote came from the Add Remote dialog.
C28_Witness ==
    /\ CommitSucceeded(trace)
    /\ GitSucceeds(trace, Pushes) /= {}
    /\ repo.origin
    /\ B_dev \notin repo.remotes


\* A navigation from current_path pushed it; go_back popped the last entry.
Pushed == history' = Append(history, current_path)

Popped ==
    /\ history /= <<>>
    /\ current_path' = history[Len(history)]
    /\ history' = SubSeq(history, 1, Len(history) - 1)

\* C29. The navigation history is a stack: every navigation from Q to P
\* (breadcrumb, folder open, sidebar, path bar, home) pushes Q, so that
\* go_back sets current_path to Q and removes exactly that entry; go_back with
\* an empty history changes neither current_path nor the history; go_back
\* never pushes.
C29_HistoryIsAStack ==
    [][/\ (history' /= history \/ current_path' /= current_path) => (Pushed \/ Popped)
       /\ GoBack => /\ Len(history') <= Len(history)
                    /\ IF history = <<>>
                       THEN UNCHANGED <<current_path, history>>
                       ELSE Popped]_vars

\* go_back has just returned to the home directory and emptied the history
\* (no other handler leaves the window there with one refresh and nothing
\* else done).
C29_Witness ==
    /\ current_path = HomePath
    /\ history = <<>>
    /\ trace = <<RefreshEv(HomePath, 1)>>


\* C30. After every navigation event current_path is an existing directory
\* (a request whose target is no directory having left current_path and the
\* history as they were), and so is every entry of the history.
C30_CurrentPathIsADirectory ==
    /\ IsDir(current_path)
    /\ \A i \in 1..Len(history) : IsDir(history[i])

====
